---- MODULE Spec2Model ----
(***************************************************************************)
(* MTAP: the test runner (run_batch / run_sn / run_step over a DutClient), *)
(* the event log it writes, the yield analytics that replay that log, and  *)
(* the DUT simulator's dispatch through the fault injector.                *)
(*                                                                         *)
(* Spec          the runner: one run_batch call, then the batch CLI exit.  *)
(* DutSpec       the DUT server: a sequence of request dispatches.         *)
(* LineSpec      one connection: request lines of every shape, in turn.    *)
(* HandlerSpec   two connections served by two handler threads.            *)
(* ServeSpec     serve_forever, its handler threads and stop();            *)
(* FairServeSpec the same with every server thread scheduled fairly.       *)
(* TwinSpec      two server instances given the same seed and requests.    *)
(* SwitchSpec    one connection that also switches the fault profile.      *)
(* GateSpec      the batch CLI from TestRunner's construction on.          *)
(* StageSpec     the runner on the steps load_plan gates by stage.         *)
(* ClientSpec    DutClient.call against an endpoint that may do anything.  *)
(* LoggerSpec    RunLogger opened and written on one run directory.        *)
(* RetrySpec     the client's calls, one socket each, against the server. *)
(* SettingsSpec  the injector's settings read from a raw profile.         *)
(* TimeoutSpec   the runner on steps with timeouts of their own.           *)
(* YieldSpec     compute_yields on the event lists a log may hold.         *)
(*                                                                         *)
(* Optional values (Python None) are sequences of length 0 or 1.           *)
(* Measurement values are numbers or absent.                               *)
(***************************************************************************)
EXTENDS Integers, Sequences, FiniteSets, TLC

VARIABLES
    \* ---- runner (runner.py, client.py, cli/run_batch.py)
    sns,          \* the SN list handed to run_batch
    plan,         \* self.plan.steps: the stage-gated steps
    dut,          \* the raw outcomes a client call may meet at the endpoint
    pc,           \* position of the (single) runner task
    snIdx,        \* run_batch: index of the SN being run
    stepIdx,      \* run_sn: index of the step being run
    attempt,      \* run_step: the loop variable
    fw,           \* run_sn: fw obtained by _ping_fw
    log,          \* events.jsonl: the events in append order
    sent,         \* request lines sent to the DUT, with the call site
    last,         \* run_step: the StepAttemptResult of the latest attempt
    sn_passed,    \* run_sn: local
    failures,     \* run_sn: local
    per_sn,       \* run_batch: local dict sn -> SnSummary
    overall,      \* run_batch: local
    exit_code,    \* status of the batch CLI process (None while running)
    calls,        \* DutClient.call: what the endpoint did and what call returned
    gate,         \* TestRunner.__init__: registry, raw plan steps, coverage matrix
    csv,          \* events.csv: absent, or its rows in append order
    timeouts,     \* self.client.timeout_s, and run_step's local original_timeout
    \* ---- DUT server (server.py, fault_injection.py, device_model.py)
    profile,      \* FaultInjector.profile (the active fault profile)
    now,          \* the server's wall clock, in ms
    faultCtx,     \* FaultInjector._ctx: (sn, cmd) -> FaultContext
    devices,      \* DeviceModel._devices: sn -> DeviceState
    replies,      \* what the server answered, in dispatch order
    stop,         \* DutServer._stop (the shutdown Event)
    sock,         \* DutServer._sock (the listening socket)
    listener,     \* position of the serve_forever task
    conns,        \* the connections: client side, socket buffers, handler task
    twin          \* two server instances run side by side on the same input

runnerVars == <<sns, plan, dut, pc, snIdx, stepIdx, attempt, fw, log, sent,
                last, sn_passed, failures, per_sn, overall, exit_code, calls, gate, csv,
                timeouts>>
srvVars == <<stop, sock, listener, conns>>
dutVars == <<profile, now, faultCtx, devices, replies, srvVars, twin>>
vars == <<runnerVars, dutVars>>

-----------------------------------------------------------------------------
(* Bounds of the model.                                                    *)
MaxSns == 2
MaxRetries == 1
MaxRequests == 3

-----------------------------------------------------------------------------
(* Common vocabulary.                                                      *)
Null == "null"
None == <<>>
Some(v) == <<v>>
Range(s) == {s[i] : i \in DOMAIN s}
SeqsUpTo(S, n) == UNION {[1..k -> S] : k \in 0..n}

E_UNKNOWN_CMD == "E_UNKNOWN_CMD"
E_BAD_ARGS == "E_BAD_ARGS"
E_TIMEOUT == "E_TIMEOUT"
E_INTERNAL == "E_INTERNAL"
E_OUT_OF_RANGE == "E_OUT_OF_RANGE"
E_BUSY == "E_BUSY"
Taxonomy == {E_UNKNOWN_CMD, E_BAD_ARGS, E_TIMEOUT, E_INTERNAL, E_OUT_OF_RANGE, E_BUSY}

SNS == {"SN1", "SN2"}
RUN_ID == "20240101T000000Z"
BATCH_ID == "B1"
Values == {0, 1, 2}

-----------------------------------------------------------------------------
(* DutClient (client.py).  A raw outcome is what _send_recv_line meets:    *)
(* a decoded JSON object (its "ok", "error_code", data["fw"] and the       *)
(* measured data field), or one of the three kinds of exception.           *)
RawJson(ok, ec, fwv, val) ==
    [kind |-> "json", ok |-> ok, error_code |-> ec, fw |-> fwv, value |-> val]
RawTimeout == [kind |-> "timeout", ok |-> FALSE, error_code |-> Null, fw |-> None, value |-> None]
RawBadJson == [kind |-> "badjson", ok |-> FALSE, error_code |-> Null, fw |-> None, value |-> None]
RawOsError == [kind |-> "oserror", ok |-> FALSE, error_code |-> Null, fw |-> None, value |-> None]

\* Every shape of outcome: ok with or without an error_code, with a value in
\* or out of the data; not ok with any code of the taxonomy or none; exceptions.
AllOutcomes ==
    {RawJson(TRUE, ec, Some("1.0.0"), v) : ec \in {Null, E_BUSY}, v \in {None} \cup {Some(x) : x \in Values}}
    \cup {RawJson(TRUE, Null, None, None)}
    \cup {RawJson(FALSE, ec, None, None) : ec \in Taxonomy \cup {Null}}
    \cup {RawTimeout, RawBadJson, RawOsError}

\* A DUT that either answers cleanly or reports an internal fault.
BatchOutcomes ==
    {RawJson(TRUE, Null, Some("1.0.0"), Some(1)), RawJson(FALSE, E_INTERNAL, None, None)}

\* _send_recv_line failing on the bytes of the response line (UnicodeDecodeError
\* from lineb.decode), and call_line failing on a decoded value that is no
\* JSON object (AttributeError from raw.get)
RawDecodeError ==
    [kind |-> "unicode", ok |-> FALSE, error_code |-> Null, fw |-> None, value |-> None]
RawNotObject ==
    [kind |-> "notobject", ok |-> FALSE, error_code |-> Null, fw |-> None, value |-> None]

ClientResult(ok, ec, fwv, val) == [ok |-> ok, error_code |-> ec, fw |-> fwv, value |-> val]

call_line(raw) ==
    CASE raw.kind = "json" -> ClientResult(raw.ok, raw.error_code, raw.fw, raw.value)
      [] raw.kind = "timeout" -> ClientResult(FALSE, E_TIMEOUT, None, None)
      [] raw.kind = "badjson" -> ClientResult(FALSE, "E_BAD_RESP", None, None)
      [] OTHER -> ClientResult(FALSE, "E_CLIENT", None, None)

\* What the endpoint does to one call: how the connect ends, the bytes it
\* sends back (a line of some content, newline-terminated or not), and what
\* follows them: the peer closes, stays silent, or resets the connection.
Endpoint(connect, content, newline, then) ==
    [connect |-> connect, content |-> content, newline |-> newline, then |-> then]

JsonObject(raw) == [kind |-> "object", raw |-> raw]
JsonArray == [kind |-> "array", raw |-> RawNotObject]
NotJsonText == [kind |-> "text", raw |-> RawBadJson]
EmptyLine == [kind |-> "empty", raw |-> RawBadJson]
InvalidUtf8 == [kind |-> "invalid_utf8", raw |-> RawDecodeError]
NoBytes == [kind |-> "none", raw |-> RawTimeout]

Contents ==
    {JsonObject(RawJson(TRUE, Null, Some("1.0.0"), Some(1))),
     JsonObject(RawJson(FALSE, E_BUSY, None, None)),
     JsonObject(RawJson(FALSE, Null, None, Some(1))),
     JsonArray, NotJsonText, EmptyLine, InvalidUtf8}

Endpoints ==
    {Endpoint(c, NoBytes, FALSE, "close") : c \in {"timeout", "refused"}}
    \cup {Endpoint("accepted", content, TRUE, "close") : content \in Contents}
    \cup {Endpoint("accepted", content, FALSE, then) :
             content \in (Contents \ {EmptyLine}) \cup {NoBytes},
             then \in {"close", "silent", "reset"}}

\* _send_recv_line: create_connection, sendall, recv until a newline; the
\* decoded JSON value of the first line, or the exception raised on the way
_send_recv_line(ep) ==
    IF ep.connect = "timeout" THEN RawTimeout
    ELSE IF ep.connect = "refused" THEN RawOsError
    ELSE IF ep.newline THEN ep.content.raw
    ELSE IF ep.then = "silent" THEN RawTimeout        \* socket.timeout from recv
    ELSE IF ep.then = "reset" THEN RawOsError         \* ConnectionResetError
    ELSE RawTimeout                                   \* b"" from recv: TimeoutError

-----------------------------------------------------------------------------
(* Plan steps (plan_schema.py, plan_loader.py).                            *)
NoLimits == [present |-> FALSE, equals |-> None, min |-> None, max |-> None]
EqualsLimit(x) == [present |-> TRUE, equals |-> Some(x), min |-> None, max |-> None]
RangeLimit(mn, mx) == [present |-> TRUE, equals |-> None, min |-> mn, max |-> mx]

\* Step.timeout_s: Field(gt=0.0, le=30.0, default=2.0), in seconds
STEP_TIMEOUT_S_DEFAULT == 2

StepSpec(id, cmd, retries, limits) ==
    [id |-> id, cmd |-> cmd, retries |-> retries, limits |-> limits,
     timeout_s |-> STEP_TIMEOUT_S_DEFAULT]

\* TestPlan._unique_step_ids
UniqueStepIds(steps) ==
    \A i, j \in DOMAIN steps : steps[i].id = steps[j].id => i = j

\* Step.retries: Field(ge=0, le=10)
ValidRetries(r) == r >= 0 /\ r <= 10

\* _evaluate_limits: (passed, error_code, value)
LimitResult(p, val) ==
    [passed |-> p, error_code |-> IF p THEN Null ELSE "LIMIT_FAIL", value |-> val]

\* the range check with strict comparisons
_evaluate_limits_strict(limits, value) ==
    IF ~limits.present THEN [passed |-> TRUE, error_code |-> Null, value |-> None]
    ELSE IF limits.equals # None THEN LimitResult(value = limits.equals, value)
    ELSE LET okMin == (limits.min # None /\ value # None) => value[1] > limits.min[1]
             okMax == (limits.max # None /\ value # None) => value[1] < limits.max[1]
         IN LimitResult(okMin /\ okMax, value)

_evaluate_limits(limits, value) ==
    IF ~limits.present THEN [passed |-> TRUE, error_code |-> Null, value |-> None]
    ELSE IF limits.equals # None THEN LimitResult(value = limits.equals, value)
    ELSE LET okMin == (limits.min # None /\ value # None) => value[1] >= limits.min[1]
             okMax == (limits.max # None /\ value # None) => value[1] <= limits.max[1]
         IN LimitResult(okMin /\ okMax, value)

-----------------------------------------------------------------------------
(* run_step's per-attempt decisions (runner.py) and StepEvent.make         *)
(* (logger.py).                                                            *)

\* the attempts `for attempt in range(1, retries_allowed + 2)` runs through
AttemptRange_oneMore(retries_allowed) == 1..(retries_allowed + 2)
AttemptRange(retries_allowed) == 1..(retries_allowed + 1)

will_retry_always(passed, att, retries_allowed) == ~passed
will_retry(passed, att, retries_allowed) == (~passed) /\ (att <= retries_allowed)

\* StepEvent.make: retry_count=max(0, attempt - 1)
retry_count(att) == IF att - 1 > 0 THEN att - 1 ELSE 0

\* `if passed: break`
BreaksLoop_never(passed) == FALSE
BreaksLoop(passed) == passed

\* One attempt's outcome from the client result: passed, error_code, value.
\* `measurement = str(limits.field)`: the limits of the plans here are all on
\* the temperature reading; no limits, no measurement
measurement(limits) == IF limits.present THEN "temp_c" ELSE Null

\* the limits applied to every response, ok or not
AttemptResult_limitsAlways(step, res) ==
    LET lim == _evaluate_limits(step.limits, res.value)
    IN IF res.ok
       THEN [passed |-> lim.passed,
             error_code |-> IF lim.passed THEN res.error_code ELSE lim.error_code,
             measurement |-> measurement(step.limits),
             value |-> lim.value]
       ELSE [passed |-> FALSE,
             error_code |-> IF lim.passed THEN res.error_code ELSE lim.error_code,
             measurement |-> Null,
             value |-> None]

AttemptResult(step, res) ==
    IF res.ok
    THEN LET lim == _evaluate_limits(step.limits, res.value)
         IN [passed |-> lim.passed,
             error_code |-> IF lim.passed THEN res.error_code ELSE lim.error_code,
             measurement |-> measurement(step.limits),
             value |-> lim.value]
    ELSE [passed |-> FALSE, error_code |-> res.error_code, measurement |-> Null,
          value |-> None]

StepEvent(sn, fwv, step, att, out) ==
    [run_id |-> RUN_ID,
     batch_id |-> BATCH_ID,
     sn |-> sn,
     fw_version |-> fwv,
     test_step |-> step.id,
     command |-> step.cmd,
     attempt |-> att,
     retry_count |-> retry_count(att),
     retries_allowed |-> step.retries,
     passed |-> out.passed,
     error_code |-> out.error_code,
     measurement |-> out.measurement,
     value |-> out.value,
     will_retry |-> will_retry(out.passed, att, step.retries)]

\* the text csv.DictWriter writes for a cell: "" for None, str(v) otherwise
CellOfBool(b) == IF b THEN "True" ELSE "False"
CellOfCode(ec) == IF ec = Null THEN "" ELSE ec
CellOfValue(v) == IF v = None THEN "" ELSE ToString(v[1])

\* the header row DictWriter.writeheader writes: the column names
CSV_COLUMNS ==
    [kind |-> "header",
     cells |-> {"run_id", "batch_id", "sn", "fw_version", "test_step", "command", "attempt",
                "retry_count", "retries_allowed", "passed", "error_code", "measurement",
                "value"}]

\* StepEvent.to_csv_row through writer.writerow: the event without its `data`
\* payload (will_retry lives there), every cell as text
to_csv_row(ev) ==
    [kind |-> "row",
     cells |-> [run_id |-> ev.run_id,
                batch_id |-> ev.batch_id,
                sn |-> ev.sn,
                fw_version |-> ev.fw_version,
                test_step |-> ev.test_step,
                command |-> ev.command,
                attempt |-> ToString(ev.attempt),
                retry_count |-> ToString(ev.retry_count),
                retries_allowed |-> ToString(ev.retries_allowed),
                passed |-> CellOfBool(ev.passed),
                error_code |-> CellOfCode(ev.error_code),
                measurement |-> CellOfCode(ev.measurement),
                value |-> CellOfValue(ev.value)]]

\* RunLogger.__init__ on a run directory whose events.csv is `csvf`
RunLogger_init_truncating(csvf) == Some(<<CSV_COLUMNS>>)
RunLogger_init(csvf) == IF csvf = None THEN Some(<<CSV_COLUMNS>>) ELSE csvf

\* RunLogger.log: open(..., "a") on each sink, one write to each
RunLogger_log(jsonl, csvf, ev) ==
    [jsonl |-> Append(jsonl, ev),
     csv |-> Some(Append(IF csvf = None THEN <<>> ELSE csvf[1], to_csv_row(ev)))]

StepAttemptResult(passed, ec) == [passed |-> passed, error_code |-> ec]
Uninitialized == StepAttemptResult(FALSE, E_INTERNAL)

SnSummary(fwv, passed, fails) == [fw_version |-> fwv, passed |-> passed, failures |-> fails]
Failure(step, out) == [step_id |-> step.id, cmd |-> step.cmd, error_code |-> out.error_code]

\* a request line sent through client.call, and the connect/read timeout
\* call_line took for it (`float(self.timeout_s)`, no timeout_s being passed)
Request(site, cmd, sn, timeout_s) ==
    [site |-> site, cmd |-> cmd, sn |-> sn, timeout_s |-> timeout_s]

\* MTAP_TIMEOUT_S: the timeout the runner's DutClient is constructed with
TIMEOUT_S_DEFAULT == 2

Timeouts(client_timeout_s, original_timeout) ==
    [client |-> client_timeout_s, original_timeout |-> original_timeout]
\* DutClient(host, dut_port, timeout_s_default)
DutClient_init == Timeouts(TIMEOUT_S_DEFAULT, None)

\* run_step before its loop: `timeout_s = float(step.timeout_s or
\* self.client.timeout_s)`, `original_timeout = self.client.timeout_s`,
\* `self.client.timeout_s = timeout_s`
override_timeout(t, step) ==
    Timeouts(IF step.timeout_s # 0 THEN step.timeout_s ELSE t.client, Some(t.client))
\* run_step returning with the step's timeout left on the client
restore_timeout_never(t) == Timeouts(t.client, None)
\* run_step after its loop: `self.client.timeout_s = original_timeout`
restore_timeout(t) == Timeouts(t.original_timeout[1], None)

-----------------------------------------------------------------------------
(* The runs the runner is started on.                                      *)
LimitChoices ==
    {NoLimits, EqualsLimit(1), RangeLimit(Some(1), None), RangeLimit(None, Some(1)),
     RangeLimit(Some(1), Some(1))}

\* one SN, one step, against a DUT that may answer anything
StepConfigs ==
    {[sns |-> <<"SN1">>,
      plan |-> <<StepSpec("read_temp", "READ_TEMP", r, lim)>>,
      dut |-> AllOutcomes] : r \in 0..MaxRetries, lim \in LimitChoices}

PingStep == StepSpec("ping", "PING", 0, NoLimits)
BatchPlans ==
    {<<>>,
     <<PingStep>>,
     <<PingStep, StepSpec("read_temp", "READ_TEMP", MaxRetries, RangeLimit(Some(0), Some(1)))>>,
     <<StepSpec("", "SELF_TEST", MaxRetries, NoLimits)>>,
     <<PingStep, StepSpec("", "SELF_TEST", 0, NoLimits)>>}

\* any SN list (run_batch takes the list as given), any of the plans
BatchConfigs ==
    {[sns |-> l, plan |-> p, dut |-> BatchOutcomes] : l \in SeqsUpTo(SNS, MaxSns), p \in BatchPlans}

Configs == StepConfigs \cup BatchConfigs

\* no traceability gate is modelled: the runner is already constructed
NoGate == <<>>

ValidPlan(p) == UniqueStepIds(p) /\ \A i \in DOMAIN p : ValidRetries(p[i].retries)

RunnerInit ==
    /\ \E cfg \in Configs :
          /\ ValidPlan(cfg.plan)
          /\ sns = cfg.sns
          /\ plan = cfg.plan
          /\ dut = cfg.dut
    /\ pc = "for_sn"
    /\ snIdx = 1
    /\ stepIdx = 1
    /\ attempt = 1
    /\ fw = "unknown"
    /\ log = <<>>
    /\ sent = <<>>
    /\ last = Uninitialized
    /\ sn_passed = TRUE
    /\ failures = <<>>
    /\ per_sn = [s \in {} |-> SnSummary("unknown", TRUE, <<>>)]
    /\ overall = TRUE
    /\ exit_code = None
    /\ calls = <<>>
    /\ timeouts = DutClient_init
    /\ gate = NoGate
    /\ csv = RunLogger_init(None)

-----------------------------------------------------------------------------
(* The runner's steps.                                                     *)

\* where run_sn goes for step k: into run_step's loop, past it when the loop
\* has no iteration, or to its return when the plan has no step k
EnterStepPc(k) ==
    IF k > Len(plan) THEN "sn_ret"
    ELSE IF 1 \in AttemptRange(plan[k].retries) THEN "attempt" ELSE "step_ret"

\* run_sn calling run_step for step k, if the plan has one: the lines of
\* run_step before its loop
EnterStep(t, k) == IF k > Len(plan) THEN t ELSE override_timeout(t, plan[k])

\* _ping_fw: the fw of an ok response, else "unknown"
ping_fw(res) ==
    IF res.ok THEN (IF res.fw = None THEN "unknown" ELSE res.fw[1]) ELSE "unknown"

\* `for sn in sns`: the order run_batch walks the SN list in
BatchOrder_reversed(list) == [i \in 1..Len(list) |-> list[Len(list) + 1 - i]]
BatchOrder(list) == list

\* run_batch's `for sn in sns` takes the next SN; run_sn starts with _ping_fw
PingFw ==
    /\ pc = "for_sn"
    /\ snIdx <= Len(sns)
    /\ \E raw \in dut :
          fw' = ping_fw(call_line(raw))
    /\ sent' = Append(sent, Request("_ping_fw", "PING", BatchOrder(sns)[snIdx],
                                 timeouts.client))
    /\ sn_passed' = TRUE
    /\ failures' = <<>>
    /\ stepIdx' = 1
    /\ attempt' = 1
    /\ last' = Uninitialized
    /\ pc' = EnterStepPc(1)
    /\ timeouts' = EnterStep(timeouts, 1)
    /\ UNCHANGED <<sns, plan, dut, snIdx, log, per_sn, overall, exit_code, dutVars, calls, gate, csv>>

\* one iteration of run_step's loop: call, limits, one event, break or go on
Attempt ==
    /\ pc = "attempt"
    /\ LET step == plan[stepIdx]
           sn == BatchOrder(sns)[snIdx]
       IN \E raw \in dut :
            LET out == AttemptResult(step, call_line(raw))
                ev == StepEvent(sn, fw, step, attempt, out)
            IN /\ sent' = Append(sent, Request("run_step", step.cmd, sn, timeouts.client))
               /\ LET files == RunLogger_log(log, csv, ev)
                  IN log' = files.jsonl /\ csv' = files.csv
               /\ last' = StepAttemptResult(out.passed, out.error_code)
               /\ IF BreaksLoop(out.passed) \/ (attempt + 1) \notin AttemptRange(step.retries)
                  THEN pc' = "step_ret" /\ attempt' = attempt
                  ELSE pc' = "attempt" /\ attempt' = attempt + 1
    /\ UNCHANGED <<timeouts, sns, plan, dut, snIdx, stepIdx, fw, sn_passed, failures, per_sn,
                   overall, exit_code, dutVars, calls, gate>>

\* `if not out.passed: sn_passed = False`
sn_passed_latest(acc, out_passed) == out_passed
sn_passed_after(acc, out_passed) == IF ~out_passed THEN FALSE ELSE acc

\* run_step returns `last`; run_sn records a failure and takes the next step
StepReturn ==
    /\ pc = "step_ret"
    /\ sn_passed' = sn_passed_after(sn_passed, last.passed)
    /\ IF ~last.passed
       THEN failures' = Append(failures, Failure(plan[stepIdx], last))
       ELSE UNCHANGED failures
    /\ stepIdx' = stepIdx + 1
    /\ attempt' = 1
    /\ last' = Uninitialized
    /\ pc' = EnterStepPc(stepIdx + 1)
    /\ timeouts' = EnterStep(restore_timeout(timeouts), stepIdx + 1)
    /\ UNCHANGED <<sns, plan, dut, snIdx, fw, log, sent, per_sn, overall, exit_code, dutVars, calls, gate, csv>>

\* `overall = overall and s.passed`
overall_or(acc, passed) == acc \/ passed
overall_and(acc, passed) == acc /\ passed

\* run_sn returns its SnSummary; run_batch stores it and folds it in
SnReturn ==
    /\ pc = "sn_ret"
    /\ LET s == SnSummary(fw, sn_passed, failures)
       IN /\ per_sn' = (BatchOrder(sns)[snIdx] :> s) @@ per_sn
          /\ overall' = overall_and(overall, s.passed)
    /\ snIdx' = snIdx + 1
    /\ pc' = "for_sn"
    /\ UNCHANGED <<timeouts, sns, plan, dut, stepIdx, attempt, fw, log, sent, last, sn_passed,
                   failures, exit_code, dutVars, calls, gate, csv>>

\* raise SystemExit(0 if summary.overall_passed else 1)
ExitStatus(overall_passed) == IF overall_passed THEN 0 ELSE 1

\* run_batch returns its RunSummary; the batch CLI exits on it
CliExit ==
    /\ pc = "for_sn"
    /\ snIdx > Len(sns)
    /\ exit_code' = Some(ExitStatus(overall))
    /\ pc' = "exit"
    /\ UNCHANGED <<timeouts, sns, plan, dut, snIdx, stepIdx, attempt, fw, log, sent, last,
                   sn_passed, failures, per_sn, overall, dutVars, calls, gate, csv>>

-----------------------------------------------------------------------------
\* no pair of instances is set up
NoTwin == <<>>

\* no server task is running
ServerIdle ==
    /\ stop = FALSE
    /\ sock = "none"
    /\ listener = "idle"
    /\ conns = <<>>

DutIdle ==
    /\ profile = Null
    /\ now = 0
    /\ faultCtx = <<>>
    /\ devices = <<>>
    /\ replies = <<>>
    /\ twin = NoTwin
    /\ ServerIdle

Init == RunnerInit /\ DutIdle
Next == PingFw \/ Attempt \/ StepReturn \/ SnReturn \/ CliExit
Spec == Init /\ [][Next]_vars

-----------------------------------------------------------------------------
(* The DUT server (server.py), its fault injector (fault_injection.py) and *)
(* its device model (device_model.py).                                     *)
(*                                                                         *)
(* Probabilities are in percent; a draw u of rng.random() is below p iff   *)
(* u < p.  Times are in ms.  The fault profiles of this model have no      *)
(* burn_in section, so burn_in_effect's multipliers are 1.                 *)

Draws == {0, 99}
Gaps == {0, 2}        \* time between the previous dispatch and this request
Stalls == {0, 2}      \* time between two successive clock reads of one dispatch
SnCommands == {"PING", "READ_TEMP"}

FaultProfile(min_interval_ms, busy_p, fail_p, timeout_p, mode, drift, markov) ==
    [min_interval_ms |-> min_interval_ms, busy_p |-> busy_p, fail_p |-> fail_p,
     timeout_p |-> timeout_p, timeout_mode |-> mode, drift_c |-> drift,
     markov_enabled |-> markov, p_good_to_bad |-> 50, p_bad_to_good |-> 50,
     fail_p_bad_state |-> 100, timeout_p_bad_state |-> 0]

CleanProfile == FaultProfile(0, 0, 0, 0, "delay", 0, FALSE)
RateLimitProfile == FaultProfile(2, 0, 0, 0, "delay", 1, FALSE)
MarkovProfile == FaultProfile(0, 0, 0, 0, "delay", 0, TRUE)
Profiles ==
    {CleanProfile,
     RateLimitProfile,
     FaultProfile(0, 50, 0, 0, "delay", 0, FALSE),
     FaultProfile(0, 0, 50, 50, "delay", 1, FALSE),
     FaultProfile(0, 0, 0, 50, "drop", 0, FALSE),
     MarkovProfile}

\* FaultContext(): markov_state "GOOD", last_cmd_ts 0.0
FaultContext(st, ts) == [markov_state |-> st, last_cmd_ts |-> ts]
\* a context made anew at every lookup
_ctx_for_fresh(ctxs, sn, cmd) == FaultContext("GOOD", 0)
\* _ctx_for: the context kept for (sn, cmd), made on first use
_ctx_for(ctxs, sn, cmd) ==
    IF <<sn, cmd>> \in DOMAIN ctxs THEN ctxs[<<sn, cmd>>] ELSE FaultContext("GOOD", 0)

\* floats: a number in units of 0.0001 degC, or NaN
Float(v) == <<v>>
NaN == <<>>
TEMP_C_DEFAULT == 250000
TEMP_C_MIN == -400000
TEMP_C_MAX == 1250000

\* DeviceState: cycles 0, drift_offset_c 0.0, temp_c from the defaults (25.0)
DeviceState(cycles, drift, temp_c) ==
    [cycles |-> cycles, drift_offset_c |-> drift, temp_c |-> temp_c]
get_or_create(devs, sn) ==
    IF sn \in DOMAIN devs THEN devs[sn] ELSE DeviceState(0, 0, Float(TEMP_C_DEFAULT))

\* apply_drift: offset + dtemp * drift_multiplier
apply_drift(prof, offset) == offset + prof.drift_c

\* should_busy, given ctx.last_cmd_ts, its own clock read and its draw
should_busy(prof, last_cmd_ts, t, u) ==
    IF prof.min_interval_ms > 0 /\ (t - last_cmd_ts) < prof.min_interval_ms
    THEN "rate_limited"
    ELSE IF prof.busy_p > 0 /\ u < prof.busy_p THEN "contention" ELSE "no"

Min(a, b) == IF a < b THEN a ELSE b

\* _markov_step: the state after one transition draw
_markov_step(prof, st, u) ==
    IF ~prof.markov_enabled THEN st
    ELSE IF st = "GOOD" /\ u < prof.p_good_to_bad THEN "BAD"
    ELSE IF st = "BAD" /\ u < prof.p_bad_to_good THEN "GOOD"
    ELSE st

\* should_fail, given the chain state after _markov_fail_add's step
should_fail(prof, st, u) ==
    LET add == IF prof.markov_enabled /\ st = "BAD" THEN prof.fail_p_bad_state ELSE 0
    IN u < Min(100, prof.fail_p + add)

\* should_timeout, given the chain state after _markov_timeout_add's step
should_timeout(prof, st, u) ==
    LET add == IF prof.markov_enabled /\ st = "BAD" THEN prof.timeout_p_bad_state ELSE 0
    IN u < Min(100, prof.timeout_p + add)

\* one check made by evaluate, and whether it fired
Stage(name, fired) == [stage |-> name, fired |-> fired]

\* the checks should_busy made: the rate limit, then (if it let the request
\* through) the probabilistic BUSY
BusyStages(busy) ==
    IF busy = "rate_limited" THEN <<Stage("BUSY_RATE_LIMIT", TRUE)>>
    ELSE <<Stage("BUSY_RATE_LIMIT", FALSE), Stage("BUSY_P", busy = "contention")>>

\* what evaluate returns (action, error_code) and what it did on the way: the
\* chain state it leaves in the context, the checks it made in order, the
\* chain state each _markov_step call returned, the number of rng draws
Decision(action, ec, st, stages, chain, draws) ==
    [action |-> action, error_code |-> ec, markov_state |-> st,
     stages |-> stages, chain |-> chain, draws |-> draws]

\* evaluate going on to should_timeout after should_fail has fired
evaluate_pastFail(prof, ctx, t, uBusy, uM1, uFail, uM2, uTo) ==
    LET busy == should_busy(prof, ctx.last_cmd_ts, t, uBusy)
        st1 == _markov_step(prof, ctx.markov_state, uM1)
        st2 == _markov_step(prof, st1, uM2)
        m == IF prof.markov_enabled THEN 1 ELSE 0
        nBusy == IF busy # "rate_limited" /\ prof.busy_p > 0 THEN 1 ELSE 0
        seen2 == IF prof.markov_enabled THEN <<st1, st2>> ELSE <<>>
        fail == should_fail(prof, st1, uFail)
        stages(f) == BusyStages(busy) \o <<Stage("FAIL", fail), Stage("TIMEOUT", f)>>
    IN IF busy # "no"
       THEN Decision("RESPOND", E_BUSY, ctx.markov_state, BusyStages(busy), <<>>, nBusy)
       ELSE IF should_timeout(prof, st2, uTo)
       THEN Decision(IF prof.timeout_mode = "drop" THEN "DROP" ELSE "DELAY", Null, st2,
                     stages(TRUE), seen2, nBusy + 2 * m + 2)
       ELSE IF fail
       THEN Decision("RESPOND", E_INTERNAL, st2, stages(FALSE), seen2, nBusy + 2 * m + 2)
       ELSE Decision("PASS", Null, st2, stages(FALSE), seen2, nBusy + 2 * m + 2)

\* FaultInjector.evaluate after `ctx.last_cmd_ts = time.time()`: the decision
\* for should_busy's clock read t and the draws
evaluate(prof, ctx, t, uBusy, uM1, uFail, uM2, uTo) ==
    LET busy == should_busy(prof, ctx.last_cmd_ts, t, uBusy)
        st1 == _markov_step(prof, ctx.markov_state, uM1)
        st2 == _markov_step(prof, st1, uM2)
        m == IF prof.markov_enabled THEN 1 ELSE 0
        nBusy == IF busy # "rate_limited" /\ prof.busy_p > 0 THEN 1 ELSE 0
        seen1 == IF prof.markov_enabled THEN <<st1>> ELSE <<>>
        seen2 == IF prof.markov_enabled THEN <<st1, st2>> ELSE <<>>
        upToFail(f) == BusyStages(busy) \o <<Stage("FAIL", f)>>
        upToTimeout(f) == upToFail(FALSE) \o <<Stage("TIMEOUT", f)>>
    IN IF busy # "no"
       THEN Decision("RESPOND", E_BUSY, ctx.markov_state, BusyStages(busy), <<>>, nBusy)
       ELSE IF should_fail(prof, st1, uFail)
       THEN Decision("RESPOND", E_INTERNAL, st1, upToFail(TRUE), seen1, nBusy + m + 1)
       ELSE IF should_timeout(prof, st2, uTo)
       THEN Decision(IF prof.timeout_mode = "drop" THEN "DROP" ELSE "DELAY", Null, st2,
                     upToTimeout(TRUE), seen2, nBusy + 2 * m + 2)
       ELSE Decision("PASS", Null, st2, upToTimeout(FALSE), seen2, nBusy + 2 * m + 2)

\* the clock is read by evaluate and again by should_busy; only the rate-limit
\* comparison uses the readings, so they are enumerated only under a rate limit
GapsFor(prof) == IF prof.min_interval_ms > 0 THEN Gaps ELSE {0}
StallsFor(prof) == IF prof.min_interval_ms > 0 THEN Stalls ELSE {0}

\* the draws of rng.random() that can come out either side of `u < p`
DecisiveDraws(p) == IF p <= 0 THEN {99} ELSE IF p >= 100 THEN {0} ELSE Draws
MarkovDraws(prof) == IF prof.markov_enabled THEN Draws ELSE {99}
FailDraws(prof) == IF prof.markov_enabled THEN Draws ELSE DecisiveDraws(prof.fail_p)
TimeoutDraws(prof) == IF prof.markov_enabled THEN Draws ELSE DecisiveDraws(prof.timeout_p)

-----------------------------------------------------------------------------
(* Request lines (protocol.py) and _dispatch (server.py).  A line is the   *)
(* sequence of its whitespace-separated tokens; the blank line is <<>>.    *)

BlankLine == <<>>
BadUtf8 == <<"(invalid utf-8)">>       \* a line whose bytes do not decode

\* str.upper on the command tokens of this model
Upper(tok) == IF tok = "ping" THEN "PING" ELSE tok

\* parse_command
parse_command(line) ==
    IF line = BlankLine THEN [cmd |-> "", args |-> <<>>]
    ELSE [cmd |-> Upper(Head(line)), args |-> Tail(line)]

CommandOfLine(line) == parse_command(line).cmd

\* float(args[1]): the tokens float() accepts, and their values
IsFloat(tok) == tok \in {"-40.0001", "-40.0", "30.5", "125.0", "125.0001", "nan"}
float(tok) ==
    CASE tok = "-40.0001" -> Float(-400001)
      [] tok = "-40.0" -> Float(-400000)
      [] tok = "30.5" -> Float(305000)
      [] tok = "125.0" -> Float(1250000)
      [] tok = "125.0001" -> Float(1250001)
      [] tok = "nan" -> NaN

\* `temp_c < -40.0 or temp_c > 125.0`: every comparison with NaN is false
out_of_range(x) == x # NaN /\ (x[1] < TEMP_C_MIN \/ x[1] > TEMP_C_MAX)

\* protocol.ok / protocol.err: the response dict
EmptyData == <<>>
Response(okay, ec, data, cmd) == [ok |-> okay, error_code |-> ec, data |-> data, cmd |-> cmd]
ok(data, cmd) == Response(TRUE, Null, data, cmd)
err_withoutCode(code, cmd) == Response(FALSE, Null, EmptyData, cmd)
err(code, cmd) == Response(FALSE, code, EmptyData, cmd)
\* _dispatch returned None: nothing is sent
NoResponse(cmd) == Response(FALSE, Null, EmptyData, cmd)

\* _set_profile: cfg["fault_profiles"].get(name), else the "clean" profile
FaultProfilesCfg ==
    [clean |-> CleanProfile, rate_limit |-> RateLimitProfile, intermittent |-> MarkovProfile]
_set_profile(name) ==
    IF name \in DOMAIN FaultProfilesCfg THEN FaultProfilesCfg[name] ELSE FaultProfilesCfg.clean

\* DeviceModel._apply_burn_in (temp_drift_per_cycle_c is 0.0 by default)
_apply_burn_in(d) == DeviceState(d.cycles + 1, d.drift_offset_c, d.temp_c)

\* the state change of DeviceModel.ping / read_temp / self_test / set_temp;
\* the time-based walk and the noise of the signals are left to TwinSpec
device_op(cmd, d, temp_c) ==
    IF cmd \in {"READ_TEMP", "SELF_TEST"} THEN _apply_burn_in(d)
    ELSE IF cmd = "SET_TEMP" THEN DeviceState(d.cycles, d.drift_offset_c, temp_c)
    ELSE d

\* self_test_fail_p_base, in percent (burn_in_fail_slope * cycles is below
\* one percent for the cycle counts of this model)
SELF_TEST_FAIL_P == 1

\* the data dict of the device operation's answer
device_data(cmd, sn, d, uDev) ==
    CASE cmd = "PING" -> [sn |-> sn, fw |-> "1.0.0"]
      [] cmd = "READ_TEMP" -> [sn |-> sn, cycles |-> d.cycles]
      [] cmd = "SELF_TEST" ->
            [sn |-> sn, self_test_ok |-> ~(uDev < SELF_TEST_FAIL_P), cycles |-> d.cycles]
      [] cmd = "SET_TEMP" -> [sn |-> sn, temp_c |-> d.temp_c]

\* rng draws of the device operation: two by _update_signals, two by the
\* gauss calls of read_temp (the first draws twice and keeps its second
\* variate for the next), one by self_test's Bernoulli
DeviceDraws(cmd) ==
    CASE cmd = "PING" -> 2
      [] cmd = "READ_TEMP" -> 4
      [] cmd = "SELF_TEST" -> 3
      [] cmd = "SET_TEMP" -> 0

\* one dispatched line: the request, what the injector decided, the response
\* (sent unless DROP), evaluate's record, the rng draws consumed
Reply(line, sn, at, action, resp, trace, draws) ==
    [line |-> line, cmd |-> resp.cmd, sn |-> sn, at |-> at, action |-> action,
     ok |-> resp.ok, error_code |-> resp.error_code, data |-> resp.data,
     sent |-> action # "DROP", trace |-> trace, draws |-> draws]

\* the server after _dispatch, and what it answered
Served(prof, devs, ctxs, t, reply) ==
    [profile |-> prof, devices |-> devs, faultCtx |-> ctxs, now |-> t, reply |-> reply]

\* `len(args) != n`
wrong_arg_count_tooFew(args, n) == Len(args) < n
wrong_arg_count(args, n) == Len(args) # n

\* DutServer._dispatch(line) at clock t0, on a server with the active profile
\* prof, the devices devs and the fault contexts ctxs
_dispatch(prof, devs, ctxs, line, t0, stall, uBusy, uM1, uFail, uM2, uTo, uDev) ==
    LET parsed == parse_command(line)
        cmd == parsed.cmd
        args == parsed.args
        Reject(code, meta) ==
            Served(prof, devs, ctxs, t0, Reply(line, "", t0, "NONE", err(code, meta), None, 0))
        \* from `decision = self.faults.evaluate(cmd, sn, d.cycles)` on
        Evaluated(sn, d1, temp_c) ==
            LET ctx0 == _ctx_for(ctxs, sn, cmd)
                ctx1 == FaultContext(ctx0.markov_state, t0)
                dec == evaluate(prof, ctx1, t0 + stall, uBusy, uM1, uFail, uM2, uTo)
                ctx2 == FaultContext(dec.markov_state, t0)
                served == dec.action \in {"PASS", "DELAY"}
                d2 == IF served THEN device_op(cmd, d1, temp_c) ELSE d1
                resp == IF served THEN ok(device_data(cmd, sn, d2, uDev), cmd)
                        ELSE IF dec.action = "RESPOND" THEN err(dec.error_code, cmd)
                        ELSE NoResponse(cmd)
                n == dec.draws + (IF served THEN DeviceDraws(cmd) ELSE 0)
            IN Served(prof, (sn :> d2) @@ devs, (<<sn, cmd>> :> ctx2) @@ ctxs, t0 + stall,
                      Reply(line, sn, t0, dec.action, resp, Some(dec), n))
    IN IF line = BadUtf8 THEN Reject(E_BAD_ARGS, "(decode)")
       ELSE IF cmd = "" THEN Reject(E_BAD_ARGS, "(empty)")
       ELSE IF cmd = "SET_FAULT_PROFILE" THEN
            IF wrong_arg_count(args, 1) THEN Reject(E_BAD_ARGS, cmd)
            ELSE Served(_set_profile(args[1]), devs, ctxs, t0,
                        Reply(line, "", t0, "NONE", ok([profile |-> args[1]], cmd), None, 0))
       ELSE IF cmd = "SET_TEMP" THEN
            IF wrong_arg_count(args, 2) THEN Reject(E_BAD_ARGS, cmd)
            ELSE IF ~IsFloat(args[2]) THEN Reject(E_BAD_ARGS, cmd)
            ELSE IF out_of_range(float(args[2])) THEN Reject(E_OUT_OF_RANGE, cmd)
            ELSE Evaluated(args[1], get_or_create(devs, args[1]), float(args[2]))
       ELSE IF cmd \in {"PING", "READ_TEMP", "SELF_TEST"} THEN
            IF wrong_arg_count(args, 1) THEN Reject(E_BAD_ARGS, cmd)
            ELSE LET d0 == get_or_create(devs, args[1])
                 IN Evaluated(args[1],
                        DeviceState(d0.cycles, apply_drift(prof, d0.drift_offset_c), d0.temp_c),
                        NaN)
       ELSE Reject(E_UNKNOWN_CMD, cmd)

DutInit ==
    /\ profile \in Profiles
    /\ now = 10           \* any clock value far from 0
    /\ faultCtx = <<>>
    /\ devices = <<>>
    /\ replies = <<>>
    /\ twin = NoTwin
    /\ ServerIdle

RunnerIdle ==
    /\ sns = <<>>
    /\ plan = <<>>
    /\ dut = {}
    /\ pc = "idle"
    /\ snIdx = 1
    /\ stepIdx = 1
    /\ attempt = 1
    /\ fw = "unknown"
    /\ log = <<>>
    /\ sent = <<>>
    /\ last = Uninitialized
    /\ sn_passed = TRUE
    /\ failures = <<>>
    /\ per_sn = <<>>
    /\ overall = TRUE
    /\ exit_code = None
    /\ calls = <<>>
    /\ timeouts = DutClient_init
    /\ gate = NoGate
    /\ csv = None

\* the server state after one _dispatch
Answered(out) ==
    /\ profile' = out.profile
    /\ now' = out.now
    /\ faultCtx' = out.faultCtx
    /\ devices' = out.devices
    /\ replies' = Append(replies, out.reply)

\* _dispatch of `<cmd> <sn>` for a single-argument SN command: get_or_create,
\* the drift update, evaluate, then RESPOND / DROP / DELAY or PASS to the device
Dispatch ==
    /\ Len(replies) < MaxRequests
    /\ \E cmd \in SnCommands, sn \in SNS, gap \in GapsFor(profile), stall \in StallsFor(profile) :
       \E uBusy \in DecisiveDraws(profile.busy_p),
          uM1 \in MarkovDraws(profile), uM2 \in MarkovDraws(profile),
          uFail \in FailDraws(profile), uTo \in TimeoutDraws(profile) :
          Answered(_dispatch(profile, devices, faultCtx, <<cmd, sn>>, now + gap, stall,
                             uBusy, uM1, uFail, uM2, uTo, 99))
    /\ UNCHANGED <<srvVars, runnerVars, twin>>

ServerInit == DutInit /\ RunnerIdle
DutNext == Dispatch
DutSpec == ServerInit /\ [][DutNext]_vars

-----------------------------------------------------------------------------
(* One connection served by DutServer._handle, line by line.               *)

\* a connection: the handler's socket (state), the client's end (peer), the
\* lines the client has sent so far (lines), those not yet received (wire),
\* those received and not yet taken up (buf), the responses the handler has
\* sent (out), the handler task's position and locals, and the number of
\* lines it has taken up since stop() set the shutdown flag (late)
Conn(state, peer, lines, wire, buf, out, hpc, loc) ==
    [state |-> state, peer |-> peer, lines |-> lines, wire |-> wire, buf |-> buf,
     out |-> out, pc |-> hpc, loc |-> loc, late |-> 0]

MaxLines == 2

\* the request lines a client sends
TempTokens == {"-40.0001", "-40.0", "30.5", "125.0", "125.0001", "nan", "abc"}
RequestLines ==
    {<<"PING", "SN1">>, <<"ping", "SN1">>, <<"READ_TEMP", "SN1">>, <<"READ_TEMP", "SN2">>,
     <<"SELF_TEST", "SN1">>}
    \cup {<<"SET_TEMP", "SN1", tok>> : tok \in TempTokens}
    \cup {<<"PING">>, <<"READ_TEMP", "SN1", "SN2">>, <<"SELF_TEST">>, <<"SET_TEMP", "SN1">>,
          <<"SET_FAULT_PROFILE">>}
    \cup {<<"RESET", "SN1">>, <<"SET_MODE", "SN1", "SAFE">>, BadUtf8}
    \cup {<<"SET_FAULT_PROFILE", "clean">>, <<"SET_FAULT_PROFILE", "rate_limit">>,
          <<"SET_FAULT_PROFILE", "nosuch">>}

\* only self_test compares a draw of its own with a probability
SelfTestDraws(line) == IF CommandOfLine(line) = "SELF_TEST" THEN Draws ELSE {99}

\* the profiles a server starts with here
LineProfiles == {p \in Profiles : p.min_interval_ms = 0}

LineInit ==
    /\ profile \in LineProfiles
    /\ now = 10
    /\ faultCtx = <<>>
    /\ devices = <<>>
    /\ replies = <<>>
    /\ twin = NoTwin
    /\ stop = FALSE
    /\ sock = "listening"
    /\ listener = "accept"
    /\ conns = ("c1" :> Conn("open", "open", <<>>, <<>>, <<>>, <<>>, "lines", None))
    /\ RunnerIdle

\* _handle: one line arrives and goes through one iteration of the
\* `while b"\n" in buf` loop: a blank line is skipped, any other is dispatched
\* and answered, or the handler returns without an answer (DROP)
ServeLine(Lines, max) ==
    /\ \E c \in DOMAIN conns :
        /\ conns[c].state = "open"
        /\ Len(conns[c].lines) < max
        /\ \E line \in Lines :
            IF line = BlankLine
            THEN /\ conns' = [conns EXCEPT ![c].lines = Append(@, line)]
                 /\ UNCHANGED <<profile, now, faultCtx, devices, replies>>
            ELSE \E gap \in GapsFor(profile), stall \in StallsFor(profile) :
                 \E uBusy \in DecisiveDraws(profile.busy_p),
                    uM1 \in MarkovDraws(profile), uM2 \in MarkovDraws(profile),
                    uFail \in FailDraws(profile), uTo \in TimeoutDraws(profile),
                    uDev \in SelfTestDraws(line) :
                    LET res == _dispatch(profile, devices, faultCtx, line, now + gap, stall,
                                         uBusy, uM1, uFail, uM2, uTo, uDev)
                    IN /\ Answered(res)
                       /\ conns' = [conns EXCEPT
                              ![c].lines = Append(@, line),
                              ![c].out = IF res.reply.sent THEN Append(@, res.reply) ELSE @,
                              ![c].state = IF res.reply.sent THEN "open" ELSE "closed"]
    /\ UNCHANGED <<stop, sock, listener, runnerVars, twin>>

HandleLine == ServeLine(RequestLines \cup {BlankLine}, MaxLines)

LineNext == HandleLine
LineSpec == LineInit /\ [][LineNext]_vars

\* a connection that switches the fault profile between its requests
MaxSwitchLines == 3
SwitchLines ==
    {<<"READ_TEMP", "SN1">>, <<"PING", "SN1">>, <<"SET_FAULT_PROFILE", "clean">>,
     <<"SET_FAULT_PROFILE", "intermittent">>, <<"SET_FAULT_PROFILE", "nosuch">>,
     <<"SET_FAULT_PROFILE">>}
SwitchProfiles == {MarkovProfile, FaultProfile(0, 0, 50, 50, "delay", 1, FALSE)}

SwitchInit ==
    /\ profile \in SwitchProfiles
    /\ now = 10
    /\ faultCtx = <<>>
    /\ devices = <<>>
    /\ replies = <<>>
    /\ twin = NoTwin
    /\ stop = FALSE
    /\ sock = "listening"
    /\ listener = "accept"
    /\ conns = ("c1" :> Conn("open", "open", <<>>, <<>>, <<>>, <<>>, "lines", None))
    /\ RunnerIdle

SwitchLine == ServeLine(SwitchLines, MaxSwitchLines)

SwitchNext == SwitchLine
SwitchSpec == SwitchInit /\ [][SwitchNext]_vars

-----------------------------------------------------------------------------
(* The threaded server: serve_forever accepting, one _handle task per      *)
(* connection, stop() called from another task.  The interpreter may       *)
(* switch tasks between any two of the steps below.                        *)

ConnIds == {"c1", "c2"}
ServeLines == {BlankLine, <<"READ_TEMP", "SN1">>, <<"PING", "SN1">>}
ServeProfiles ==
    {FaultProfile(0, 0, 50, 50, "delay", 1, FALSE),
     FaultProfile(0, 0, 0, 50, "drop", 0, FALSE)}

RECURSIVE LinesSent(_)
LinesSent(C) ==
    IF C = {} THEN 0
    ELSE LET c == CHOOSE x \in C : TRUE
         IN Len(conns[c].lines) + LinesSent(C \ {c})

\* splitting the buffer at its last newline
split_last(buf) == [line |-> buf[Len(buf)], rest |-> SubSeq(buf, 1, Len(buf) - 1)]
\* `line, buf = buf.split(b"\n", 1)`
split(buf) == [line |-> Head(buf), rest |-> Tail(buf)]

\* the lines _dispatch takes through its single-argument branch to the device
SingleArgSn(line) ==
    /\ line # BadUtf8
    /\ parse_command(line).cmd \in {"PING", "READ_TEMP", "SELF_TEST"}
    /\ ~wrong_arg_count(parse_command(line).args, 1)

\* the locals of a handler inside _dispatch
Locals(line, drift_read, cycles_read, dec) ==
    [line |-> line, cmd |-> parse_command(line).cmd, sn |-> parse_command(line).args[1],
     drift_read |-> drift_read, cycles_read |-> cycles_read, dec |-> dec]

ServeInit ==
    /\ profile \in ServeProfiles
    /\ now = 10
    /\ faultCtx = <<>>
    /\ devices = <<>>
    /\ replies = <<>>
    /\ twin = NoTwin
    /\ stop = FALSE
    /\ sock = "listening"
    /\ listener = "check"
    /\ conns = [c \in ConnIds |-> Conn("pending", "open", <<>>, <<>>, <<>>, <<>>, "none", None)]
    /\ RunnerIdle

\* a client writes one line to its connection
ClientSend ==
    /\ LinesSent(ConnIds) < MaxLines
    /\ \E c \in ConnIds, line \in ServeLines :
        /\ conns[c].peer = "open"
        /\ conns[c].state \in {"pending", "open"}
        /\ conns' = [conns EXCEPT ![c].lines = Append(@, line), ![c].wire = Append(@, line)]
    /\ UNCHANGED <<profile, now, faultCtx, devices, replies, stop, sock, listener, runnerVars, twin>>

\* a client that has read every answer it was due closes its connection
ClientClose ==
    /\ \E c \in ConnIds :
        /\ conns[c].peer = "open"
        /\ conns[c].state = "open" /\ conns[c].pc = "recv"
        /\ conns[c].wire = <<>>
        /\ conns' = [conns EXCEPT ![c].peer = "closed"]
    /\ UNCHANGED <<profile, now, faultCtx, devices, replies, stop, sock, listener, runnerVars, twin>>

\* stop(): self._stop.set()
StopSet ==
    /\ ~stop
    /\ stop' = TRUE
    /\ UNCHANGED <<profile, now, faultCtx, devices, replies, sock, listener, conns, runnerVars, twin>>

\* stop(): self._sock.close()
StopClose ==
    /\ stop
    /\ sock = "listening"
    /\ sock' = "closed"
    /\ UNCHANGED <<profile, now, faultCtx, devices, replies, stop, listener, conns, runnerVars, twin>>

\* serve_forever: `while not self._stop.is_set()`; leaving the loop leaves the
\* `with socket` block
ListenerCheck ==
    /\ listener = "check"
    /\ IF stop
       THEN listener' = "returned" /\ sock' = "closed"
       ELSE listener' = "accept" /\ UNCHANGED sock
    /\ UNCHANGED <<profile, now, faultCtx, devices, replies, stop, conns, runnerVars, twin>>

\* serve_forever: s.accept() returns a connection; its handler thread starts
ListenerAccept ==
    /\ listener = "accept"
    /\ sock = "listening"
    /\ \E c \in ConnIds :
        /\ conns[c].state = "pending"
        /\ conns' = [conns EXCEPT ![c].state = "open", ![c].pc = "loop"]
    /\ listener' = "check"
    /\ UNCHANGED <<profile, now, faultCtx, devices, replies, stop, sock, runnerVars, twin>>

\* serve_forever: s.accept() times out (0.5 s) with no connection waiting
ListenerTimeout ==
    /\ listener = "accept"
    /\ sock = "listening"
    /\ \A c \in ConnIds : conns[c].state # "pending"
    /\ listener' = "check"
    /\ UNCHANGED <<profile, now, faultCtx, devices, replies, stop, sock, conns, runnerVars, twin>>

\* serve_forever: s.accept() on the closed socket raises OSError: break
ListenerOSError ==
    /\ listener = "accept"
    /\ sock = "closed"
    /\ listener' = "returned"
    /\ UNCHANGED <<profile, now, faultCtx, devices, replies, stop, sock, conns, runnerVars, twin>>

\* the handler returns: `with conn` closes the socket
Returned(h, hpc) == [h EXCEPT !.state = "closed", !.pc = hpc, !.loc = None]

\* _handle: `while not self._stop.is_set()`
HandlerLoop ==
    /\ \E c \in ConnIds :
        /\ conns[c].state = "open" /\ conns[c].pc = "loop"
        /\ conns' = [conns EXCEPT ![c] = IF stop THEN Returned(@, "done")
                                         ELSE [@ EXCEPT !.pc = "recv"]]
    /\ UNCHANGED <<profile, now, faultCtx, devices, replies, stop, sock, listener, runnerVars, twin>>

\* _handle: conn.recv(4096) returns some of the bytes on the wire, or b"" once
\* the client has closed; it blocks otherwise
HandlerRecv ==
    /\ \E c \in ConnIds :
        /\ conns[c].state = "open" /\ conns[c].pc = "recv"
        /\ IF conns[c].wire # <<>>
           THEN \E k \in 1..Len(conns[c].wire) :
                   conns' = [conns EXCEPT
                       ![c].buf = @ \o SubSeq(conns[c].wire, 1, k),
                       ![c].wire = SubSeq(@, k + 1, Len(@)),
                       ![c].pc = "lines"]
           ELSE /\ conns[c].peer = "closed"
                /\ conns' = [conns EXCEPT ![c] = Returned(@, "done")]
    /\ UNCHANGED <<profile, now, faultCtx, devices, replies, stop, sock, listener, runnerVars, twin>>

\* the handler of c after _dispatch answered reply: sendall, or return on DROP
Sent(cs, c, reply) ==
    [cs EXCEPT ![c] = IF reply.sent
                         THEN [@ EXCEPT !.out = Append(@, reply), !.pc = "lines", !.loc = None]
                         ELSE Returned(@, "dropped")]

\* _handle: `while b"\n" in buf`: the next line is split off; a blank line is
\* skipped; a line for the single-argument branch of _dispatch goes as far as
\* reading d.drift_offset_c for apply_drift; any other line is answered
HandlerLine ==
    /\ \E c \in ConnIds :
        /\ conns[c].state = "open" /\ conns[c].pc = "lines"
        /\ IF conns[c].buf = <<>>
           THEN /\ conns' = [conns EXCEPT ![c].pc = "loop"]
                /\ UNCHANGED <<profile, now, faultCtx, devices, replies>>
           ELSE LET s == split(conns[c].buf)
                    skipped == [conns EXCEPT ![c].buf = s.rest]
                    taken == [skipped EXCEPT ![c].late = IF stop THEN @ + 1 ELSE @]
                IN IF s.line = BlankLine
                   THEN /\ conns' = skipped
                        /\ UNCHANGED <<profile, now, faultCtx, devices, replies>>
                   ELSE IF SingleArgSn(s.line)
                   THEN LET sn == parse_command(s.line).args[1]
                            d == get_or_create(devices, sn)
                        IN /\ devices' = (sn :> d) @@ devices
                           /\ conns' = [taken EXCEPT
                                  ![c].pc = "drift",
                                  ![c].loc = Locals(s.line, d.drift_offset_c, 0, None)]
                           /\ UNCHANGED <<profile, now, faultCtx, replies>>
                   ELSE \E uBusy \in DecisiveDraws(profile.busy_p),
                           uFail \in FailDraws(profile), uTo \in TimeoutDraws(profile) :
                           LET res == _dispatch(profile, devices, faultCtx, s.line, now, 0,
                                                uBusy, 99, uFail, 99, uTo, 99)
                           IN /\ Answered(res)
                              /\ conns' = Sent(taken, c, res.reply)
    /\ UNCHANGED <<stop, sock, listener, runnerVars, twin>>

\* _dispatch, from the store of apply_drift's result into d.drift_offset_c to
\* the answer; read_temp and self_test go as far as reading d.cycles
HandlerDrift ==
    /\ \E c \in ConnIds :
        /\ conns[c].state = "open" /\ conns[c].pc = "drift"
        /\ \E uBusy \in DecisiveDraws(profile.busy_p),
              uM1 \in MarkovDraws(profile), uM2 \in MarkovDraws(profile),
              uFail \in FailDraws(profile), uTo \in TimeoutDraws(profile) :
              LET loc == conns[c].loc
                  d1 == [devices[loc.sn] EXCEPT
                            !.drift_offset_c = apply_drift(profile, loc.drift_read)]
                  ctx0 == _ctx_for(faultCtx, loc.sn, loc.cmd)
                  ctx1 == FaultContext(ctx0.markov_state, now)
                  dec == evaluate(profile, ctx1, now, uBusy, uM1, uFail, uM2, uTo)
                  served == dec.action \in {"PASS", "DELAY"}
                  resp == IF served THEN ok(device_data(loc.cmd, loc.sn, d1, 99), loc.cmd)
                          ELSE IF dec.action = "RESPOND" THEN err(dec.error_code, loc.cmd)
                          ELSE NoResponse(loc.cmd)
                  n == dec.draws + (IF served THEN DeviceDraws(loc.cmd) ELSE 0)
                  reply == Reply(loc.line, loc.sn, now, dec.action, resp, Some(dec), n)
              IN /\ devices' = [devices EXCEPT ![loc.sn] = d1]
                 /\ faultCtx' = (<<loc.sn, loc.cmd>> :> FaultContext(dec.markov_state, now))
                                    @@ faultCtx
                 /\ IF served /\ loc.cmd \in {"READ_TEMP", "SELF_TEST"}
                    THEN /\ conns' = [conns EXCEPT
                                ![c].pc = "burn_in",
                                ![c].loc = Locals(loc.line, loc.drift_read, d1.cycles, Some(dec))]
                         /\ UNCHANGED replies
                    ELSE /\ conns' = Sent(conns, c, reply)
                         /\ replies' = Append(replies, reply)
    /\ UNCHANGED <<profile, now, stop, sock, listener, runnerVars, twin>>

\* _apply_burn_in: the store of `d.cycles += 1`, then the answer of
\* read_temp / self_test
HandlerBurnIn ==
    /\ \E c \in ConnIds :
        /\ conns[c].state = "open" /\ conns[c].pc = "burn_in"
        /\ \E uDev \in SelfTestDraws(conns[c].loc.line) :
              LET loc == conns[c].loc
                  dec == loc.dec[1]
                  d2 == [devices[loc.sn] EXCEPT !.cycles = loc.cycles_read + 1]
                  reply == Reply(loc.line, loc.sn, now, dec.action,
                                 ok(device_data(loc.cmd, loc.sn, d2, uDev), loc.cmd),
                                 Some(dec), dec.draws + DeviceDraws(loc.cmd))
              IN /\ devices' = [devices EXCEPT ![loc.sn] = d2]
                 /\ conns' = Sent(conns, c, reply)
                 /\ replies' = Append(replies, reply)
    /\ UNCHANGED <<profile, now, faultCtx, stop, sock, listener, runnerVars, twin>>

ServeNext ==
    \/ ClientSend \/ ClientClose \/ StopSet \/ StopClose
    \/ ListenerCheck \/ ListenerAccept \/ ListenerTimeout \/ ListenerOSError
    \/ HandlerLoop \/ HandlerRecv \/ HandlerLine \/ HandlerDrift \/ HandlerBurnIn
ServeSpec == ServeInit /\ [][ServeNext]_vars

\* the handlers of connections that were accepted earlier, with no stop()
HandlerInit ==
    /\ profile \in ServeProfiles
    /\ now = 10
    /\ faultCtx = <<>>
    /\ devices = <<>>
    /\ replies = <<>>
    /\ twin = NoTwin
    /\ stop = FALSE
    /\ sock = "listening"
    /\ listener = "accept"
    /\ conns = [c \in ConnIds |-> Conn("open", "open", <<>>, <<>>, <<>>, <<>>, "loop", None)]
    /\ RunnerIdle
HandlerNext ==
    \/ ClientSend \/ ClientClose
    \/ HandlerLoop \/ HandlerRecv \/ HandlerLine \/ HandlerDrift \/ HandlerBurnIn
HandlerSpec == HandlerInit /\ [][HandlerNext]_vars

\* every task of the server that can take a step is scheduled in the end;
\* nothing makes a client send or close, or anyone call stop()
ServeFairness ==
    /\ WF_vars(StopClose)
    /\ WF_vars(ListenerCheck) /\ WF_vars(ListenerAccept)
    /\ WF_vars(ListenerTimeout) /\ WF_vars(ListenerOSError)
    /\ WF_vars(HandlerLoop) /\ WF_vars(HandlerRecv) /\ WF_vars(HandlerLine)
    /\ WF_vars(HandlerDrift) /\ WF_vars(HandlerBurnIn)
FairServeSpec == ServeSpec /\ ServeFairness

-----------------------------------------------------------------------------
(* The runner's client against the threaded server: one call after another, *)
(* each through _send_recv_line, while the handlers of earlier connections  *)
(* may still be asleep or about to answer.                                  *)

CallLines == {<<"READ_TEMP", "SN1">>, <<"PING", "SN1">>}

\* a socket no call has created yet
FreeSocket == Conn("free", "closed", <<>>, <<>>, <<>>, <<>>, "none", None)

\* one call_line: its socket, the position of its request among the lines
\* sent on that socket, the position of the response line it read (if any),
\* and its ClientResult once it has returned
Call(c, line, request, read, result) ==
    [socket |-> c, line |-> line, request |-> request, read |-> read, result |-> result]

\* the call that has sent its line and not returned yet
InCall == calls # <<>> /\ calls[Len(calls)].result = None
\* the response lines earlier and present calls have read from socket c
ReadOn(c) == Cardinality({k \in DOMAIN calls : calls[k].socket = c /\ calls[k].read # None})

\* json.loads of the response line the server wrote for a reply
ResponseLine(reply) ==
    RawJson(reply.ok, reply.error_code,
            IF "fw" \in DOMAIN reply.data THEN Some(reply.data.fw) ELSE None,
            IF "cycles" \in DOMAIN reply.data THEN Some(reply.data.cycles) ELSE None)

\* one socket kept for all calls: the first call connects, later calls send on
\* the connection that is there
create_connection_pooled(cs) ==
    IF \E c \in DOMAIN cs : cs[c].state # "free"
    THEN CHOOSE c \in DOMAIN cs : cs[c].state # "free"
    ELSE CHOOSE c \in DOMAIN cs : cs[c].state = "free"
\* `socket.create_connection((self.host, self.port), timeout=timeout_s)`: a
\* new socket, connected to the listener and waiting in its backlog
create_connection(cs) == CHOOSE c \in DOMAIN cs : cs[c].state = "free"

RetryInit ==
    /\ profile \in ServeProfiles
    /\ now = 10
    /\ faultCtx = <<>>
    /\ devices = <<>>
    /\ replies = <<>>
    /\ twin = NoTwin
    /\ stop = FALSE
    /\ sock = "listening"
    /\ listener = "check"
    /\ conns = [c \in ConnIds |-> FreeSocket]
    /\ RunnerIdle

\* _send_recv_line: create_connection, settimeout, sendall(payload)
CallConnect ==
    /\ ~InCall
    /\ \E c \in ConnIds : conns[c].state = "free"
    /\ \E line \in CallLines :
          LET c == create_connection(conns)
          IN /\ conns' = [conns EXCEPT ![c].state = "pending", ![c].peer = "open",
                                       ![c].lines = Append(@, line),
                                       ![c].wire = Append(@, line)]
             /\ calls' = Append(calls, Call(c, line, Len(conns[c].lines) + 1, None, None))
    /\ UNCHANGED <<timeouts, sns, plan, dut, pc, snIdx, stepIdx, attempt, fw, log, sent, last,
                   sn_passed, failures, per_sn, overall, exit_code, gate, csv,
                   profile, now, faultCtx, devices, replies, stop, sock, listener, twin>>

\* the call in progress returns result, having read the response line at
\* position read of its socket (or none); leaving `with` closes the socket
Returns(read, result) ==
    LET cur == calls[Len(calls)]
    IN /\ calls' = [calls EXCEPT ![Len(calls)] =
                       Call(cur.socket, cur.line, cur.request, read, Some(result))]
       /\ conns' = [conns EXCEPT ![cur.socket].peer = "closed"]
       /\ UNCHANGED <<timeouts, sns, plan, dut, pc, snIdx, stepIdx, attempt, fw, log, sent, last,
                      sn_passed, failures, per_sn, overall, exit_code, gate, csv,
                      profile, now, faultCtx, devices, replies, stop, sock, listener, twin>>

\* _send_recv_line: sock.recv returns the next response line of the socket;
\* call_line builds the ClientResult from it
CallRecv ==
    /\ InCall
    /\ LET c == calls[Len(calls)].socket
           n == ReadOn(c) + 1
       IN /\ Len(conns[c].out) >= n
          /\ Returns(Some(n), call_line(ResponseLine(conns[c].out[n])))

\* _send_recv_line: sock.recv raises socket.timeout, nothing having arrived
\* within timeout_s
CallTimeout ==
    /\ InCall
    /\ LET c == calls[Len(calls)].socket
       IN /\ Len(conns[c].out) = ReadOn(c)
          /\ conns[c].state # "closed"
          /\ Returns(None, call_line(RawTimeout))

\* _send_recv_line: sock.recv returns b"", the handler having closed the
\* connection: `raise TimeoutError("No complete response line from DUT")`
CallEof ==
    /\ InCall
    /\ LET c == calls[Len(calls)].socket
       IN /\ Len(conns[c].out) = ReadOn(c)
          /\ conns[c].state = "closed"
          /\ Returns(None, call_line(RawTimeout))

RetryNext ==
    \/ CallConnect \/ CallRecv \/ CallTimeout \/ CallEof
    \/ ListenerCheck \/ ListenerAccept \/ ListenerTimeout
    \/ HandlerLoop \/ HandlerRecv \/ HandlerLine \/ HandlerDrift \/ HandlerBurnIn
RetrySpec == RetryInit /\ [][RetryNext]_vars

-----------------------------------------------------------------------------
(* The injector's settings (fault_injection.py): a profile as it is loaded  *)
(* from the configuration, a `default` section and `per_command` sections,  *)
(* each a dict of dicts, and the settings the injector's checks read from   *)
(* it.  Probabilities are in percent; a per-1k-cycles multiplier is a whole *)
(* number and cycles a multiple of 1000.                                    *)

MaxSettingsRequests == 2
SectionNames == {"timeout", "fail", "drift", "burn_in", "busy"}

\* dict.get(key, dflt) or {}
Get(d, key, dflt) == IF key \in DOMAIN d THEN d[key] ELSE dflt
\* d = dict(a); d.update(b)
Updated(a, b) == [k \in DOMAIN a \cup DOMAIN b |-> IF k \in DOMAIN b THEN b[k] ELSE a[k]]

\* the default sections of the profiles of this model
DefaultSections ==
    {[timeout |-> [p |-> 0, mode |-> "delay"],
      fail |-> [p |-> fp],
      drift |-> [temp_offset_per_cycle_c |-> 1],
      burn_in |-> [fail_p_multiplier_per_1k_cycles |-> 0],
      busy |-> [min_interval_ms |-> 0, p |-> 0]] : fp \in {0, 50, 100}}
\* what per_command holds for one command
CommandSections ==
    {<<>>,
     [fail |-> [p |-> 0]],
     [burn_in |-> [fail_p_multiplier_per_1k_cycles |-> 1]],
     [timeout |-> [mode |-> "drop"], drift |-> [temp_offset_per_cycle_c |-> 0]],
     [busy |-> [p |-> 100]]}
RawProfiles ==
    {[default |-> d, per_command |-> [PING |-> a, READ_TEMP |-> b]] :
        d \in DefaultSections, a \in CommandSections, b \in CommandSections}
    \cup {[default |-> d] : d \in DefaultSections}

\* _cfg_for: merged(section) for the five sections
_cfg_for(prof, cmd) ==
    LET base == Get(prof, "default", <<>>)
        per == Get(Get(prof, "per_command", <<>>), cmd, <<>>)
    IN [section \in SectionNames |->
           Updated(Get(base, section, <<>>), Get(per, section, <<>>))]

\* the profile after _cfg_for: merged works on `dict(base.get(section) or {})`,
\* a copy, so the update leaves the profile's own dicts as they were
ProfileAfter(prof, cmd) == prof

\* burn_in_effect: fail_multiplier = max(0.0, 1.0 + multiplier * cycles / 1000)
\* from `self._cfg_for("READ_TEMP")["burn_in"]`
BurnInSettings(prof) == _cfg_for(prof, "READ_TEMP")["burn_in"]
burn_in_effect(prof, cycles) ==
    LET m == 1 + Get(BurnInSettings(prof), "fail_p_multiplier_per_1k_cycles", 0)
                     * (cycles \div 1000)
    IN [fail_multiplier |-> IF m > 0 THEN m ELSE 0]

\* should_fail for cmd: p from the command's fail settings, times the burn-in
\* multiplier, plus what _markov_fail_add returned
should_fail_for(prof, cmd, cycles, markov_add, u) ==
    LET p == Get(_cfg_for(prof, cmd)["fail"], "p", 0)
                 * burn_in_effect(prof, cycles).fail_multiplier
    IN u < Min(100, p + markov_add)

\* the settings each check of the injector reads for a request of cmd:
\* should_timeout, should_fail, apply_drift and should_busy read the section of
\* their name from _cfg_for(cmd); burn_in_effect reads its own
SettingsRead(prof, cmd) ==
    [section \in SectionNames |->
        IF section = "burn_in" THEN BurnInSettings(prof) ELSE _cfg_for(prof, cmd)[section]]

SettingsInit ==
    /\ profile \in RawProfiles
    /\ now = 0
    /\ faultCtx = <<>>
    /\ devices = <<>>
    /\ replies = <<>>
    /\ twin = NoTwin
    /\ ServerIdle
    /\ RunnerIdle

\* one request of cmd for a device at some cycle count: the settings read for
\* it and should_fail's answer, the chain adding markov_add
SettingsRequest ==
    /\ Len(replies) < MaxSettingsRequests
    /\ \E cmd \in SnCommands, cycles \in {0, 1000}, markov_add \in {0, 100}, u \in Draws :
          /\ replies' = Append(replies,
                 [cmd |-> cmd, cycles |-> cycles, markov_add |-> markov_add,
                  before |-> profile, settings |-> SettingsRead(profile, cmd),
                  failed |-> should_fail_for(profile, cmd, cycles, markov_add, u),
                  after |-> ProfileAfter(profile, cmd)])
          /\ profile' = ProfileAfter(profile, cmd)
    /\ UNCHANGED <<now, faultCtx, devices, twin, stop, sock, listener, conns, runnerVars>>

SettingsNext == SettingsRequest
SettingsSpec == SettingsInit /\ [][SettingsNext]_vars

-----------------------------------------------------------------------------
(* The traceability gate (traceability/coverage.py) in TestRunner.__init__, *)
(* run by the batch CLI before run_batch.                                  *)

MaxRawSteps == 2
ReqIds == {"REQ-001", "REQ-002"}

\* the requirement registry: req_id -> info; the registries of this model
Registries == {[r \in S |-> [title |-> "t"]] : S \in SUBSET ReqIds}

\* a step of the raw (ungated) plan: its id, its req_ids (at least one), and
\* whether its stages hold the stage the batch runs at
RawStep(id, req_ids, staged) == [id |-> id, req_ids |-> req_ids, staged |-> staged]
ReqLists == {<<"REQ-001">>, <<"REQ-002">>, <<"REQ-001", "REQ-002">>, <<"REQ-002", "REQ-002">>}
StepIds == <<"s1", "s2", "s3">>
RawPlans ==
    UNION {{[k \in 1..n |-> RawStep(StepIds[k], rl[k], st[k])] :
               rl \in [1..n -> ReqLists], st \in [1..n -> BOOLEAN]} : n \in 0..MaxRawSteps}

\* step_pairs = [(s.id, list(s.req_ids)) for s in raw_plan.steps]
StepPairs(raw_plan) == [k \in DOMAIN raw_plan |-> <<raw_plan[k].id, raw_plan[k].req_ids>>]

\* load_plan: the steps enabled for the stage
ActiveSteps(raw_plan) ==
    LET act == SelectSeq(raw_plan, LAMBDA s : s.staged)
    IN [k \in DOMAIN act |-> StepSpec(act[k].id, "PING", 0, NoLimits)]

\* the first rule of validate_coverage alone
validate_coverage_rule1(requirements, step_pairs) ==
    LET req_ids == DOMAIN requirements
        covered == UNION {Range(step_pairs[k][2]) : k \in DOMAIN step_pairs}
    IN IF req_ids \ covered # {} THEN Some("Uncovered requirements") ELSE None

\* validate_coverage: None, or the ValueError it raises
validate_coverage(requirements, step_pairs) ==
    LET req_ids == DOMAIN requirements
        covered == UNION {Range(step_pairs[k][2]) : k \in DOMAIN step_pairs}
        missing == req_ids \ covered
        referenced == covered \ req_ids
    IN IF missing # {} THEN Some("Uncovered requirements")
       ELSE IF referenced # {} THEN Some("Plan references unknown requirements")
       ELSE None

\* generate_coverage_matrix: for each requirement, covered and mapped_steps
generate_coverage_matrix(requirements, step_pairs) ==
    [rid \in DOMAIN requirements |->
        LET mapped == SelectSeq(step_pairs, LAMBDA pr : rid \in Range(pr[2]))
        IN [covered |-> IF mapped # <<>> THEN "Y" ELSE "N",
            mapped_steps |-> [k \in DOMAIN mapped |-> mapped[k][1]]]]

\* how the constructor ends: the exception it raises (or None) and the
\* coverage_matrix.csv it wrote (or None)
Constructed(raised, matrix) == [raised |-> raised, matrix |-> matrix]

\* the constructor writing the matrix without the check
TestRunner_init_unchecked(reqs, raw_plan) ==
    IF reqs = None THEN Constructed(None, None)
    ELSE Constructed(None, Some(generate_coverage_matrix(reqs[1], StepPairs(raw_plan))))

\* TestRunner.__init__ from `if reqs is not None:` on; reqs is None when no
\* registry could be loaded
TestRunner_init(reqs, raw_plan) ==
    IF reqs = None THEN Constructed(None, None)
    ELSE LET raised == validate_coverage(reqs[1], StepPairs(raw_plan))
         IN IF raised # None THEN Constructed(raised, None)
            ELSE Constructed(None, Some(generate_coverage_matrix(reqs[1], StepPairs(raw_plan))))

Gate(reqs, raw_plan, matrix) == [reqs |-> reqs, raw_plan |-> raw_plan, matrix |-> matrix]

GateInit ==
    /\ \E reqs \in {None} \cup {Some(r) : r \in Registries}, raw_plan \in RawPlans :
          /\ gate = Gate(reqs, raw_plan, None)
          /\ plan = ActiveSteps(raw_plan)
    /\ sns = <<"SN1">>
    /\ dut = BatchOutcomes
    /\ pc = "construct"
    /\ snIdx = 1
    /\ stepIdx = 1
    /\ attempt = 1
    /\ fw = "unknown"
    /\ log = <<>>
    /\ sent = <<>>
    /\ last = Uninitialized
    /\ sn_passed = TRUE
    /\ failures = <<>>
    /\ per_sn = [s \in {} |-> SnSummary("unknown", TRUE, <<>>)]
    /\ overall = TRUE
    /\ exit_code = None
    /\ calls = <<>>
    /\ timeouts = DutClient_init
    /\ csv = None
    /\ DutIdle

\* main: runner = TestRunner(...); an exception ends the process with status 1
Construct ==
    /\ pc = "construct"
    /\ LET c == TestRunner_init(gate.reqs, gate.raw_plan)
       IN /\ gate' = [gate EXCEPT !.matrix = c.matrix]
          /\ csv' = RunLogger_init(csv)
          /\ IF c.raised # None
             THEN pc' = "aborted" /\ exit_code' = Some(1)
             ELSE pc' = "for_sn" /\ UNCHANGED exit_code
    /\ UNCHANGED <<timeouts, sns, plan, dut, snIdx, stepIdx, attempt, fw, log, sent, last,
                   sn_passed, failures, per_sn, overall, calls, dutVars>>

GateNext == Construct \/ PingFw \/ Attempt \/ StepReturn \/ SnReturn \/ CliExit
GateSpec == GateInit /\ [][GateNext]_vars

-----------------------------------------------------------------------------
(* Stage gating (plan_loader.load_plan), from the plan file to the steps   *)
(* the runner executes.                                                    *)

MaxStageSteps == 2

\* Stage = Literal["EVT", "DVT", "PVT", "MP"]
Stages == {"EVT", "DVT", "PVT", "MP"}

\* str(stage).strip()
Strip(str) == IF str = " " THEN "" ELSE str

\* a step of the validated plan file: its id and its stages list
StagedStep(id, stages) == [id |-> id, stages |-> stages]
StageLists == {<<>>, <<"EVT">>, <<"DVT">>, <<"DVT", "EVT">>}
StagedPlans ==
    UNION {{[k \in 1..n |-> StagedStep(StepIds[k], sl[k])] : sl \in [1..n -> StageLists]} :
              n \in 0..MaxStageSteps}

\* the stage argument: not given, blank, a stage, or something else
StageArgs == {None, Some(""), Some(" "), Some("EVT"), Some("DVT"), Some("XXX")}

\* load_plan: the gated steps, or the ValueError raised on an unknown stage
load_plan_stationStage(parsed, station_stage, stage) ==
    [raised |-> None,
     steps |-> ActiveSteps([k \in DOMAIN parsed |->
                   RawStep(parsed[k].id, <<"REQ-001">>,
                           station_stage \in Range(parsed[k].stages))])]
load_plan(parsed, station_stage, stage) ==
    LET given == stage # None /\ Strip(stage[1]) # ""
        effective_stage == IF given THEN stage[1] ELSE station_stage
    IN IF given /\ stage[1] \notin Stages
       THEN [raised |-> Some("Invalid stage"), steps |-> <<>>]
       ELSE [raised |-> None,
             steps |-> ActiveSteps([k \in DOMAIN parsed |->
                           RawStep(parsed[k].id, <<"REQ-001">>,
                                   effective_stage \in Range(parsed[k].stages))])]

\* the plan file, station.stage and the stage argument; no registry is found
StageInit ==
    /\ \E parsed \in StagedPlans, station_stage \in {"EVT", "DVT"}, stage \in StageArgs :
          gate = [reqs |-> None, raw_plan |-> parsed, matrix |-> None,
                  station_stage |-> station_stage, stage |-> stage]
    /\ plan = <<>>
    /\ sns = <<"SN1">>
    /\ dut = BatchOutcomes
    /\ pc = "construct"
    /\ snIdx = 1
    /\ stepIdx = 1
    /\ attempt = 1
    /\ fw = "unknown"
    /\ log = <<>>
    /\ sent = <<>>
    /\ last = Uninitialized
    /\ sn_passed = TRUE
    /\ failures = <<>>
    /\ per_sn = [s \in {} |-> SnSummary("unknown", TRUE, <<>>)]
    /\ overall = TRUE
    /\ exit_code = None
    /\ calls = <<>>
    /\ timeouts = DutClient_init
    /\ csv = None
    /\ DutIdle

\* TestRunner.__init__: the logger, then self.plan = load_plan(plan_path, stage)
LoadPlan ==
    /\ pc = "construct"
    /\ csv' = RunLogger_init(csv)
    /\ LET loaded == load_plan(gate.raw_plan, gate.station_stage, gate.stage)
       IN /\ plan' = loaded.steps
          /\ IF loaded.raised # None
             THEN pc' = "aborted" /\ exit_code' = Some(1)
             ELSE pc' = "for_sn" /\ UNCHANGED exit_code
    /\ UNCHANGED <<timeouts, sns, dut, snIdx, stepIdx, attempt, fw, log, sent, last,
                   sn_passed, failures, per_sn, overall, calls, gate, dutVars>>

StageNext == LoadPlan \/ PingFw \/ Attempt \/ StepReturn \/ SnReturn \/ CliExit
StageSpec == StageInit /\ [][StageNext]_vars

-----------------------------------------------------------------------------
(* The runner on plans whose steps have timeouts of their own, shorter and *)
(* longer than the client's.                                               *)

StepTimeouts == {1, 5}
TimedStep(id, cmd, retries, timeout_s) ==
    [StepSpec(id, cmd, retries, NoLimits) EXCEPT !.timeout_s = timeout_s]
TimedPlans ==
    {<<TimedStep("ping", "PING", 0, a), TimedStep("read_temp", "READ_TEMP", MaxRetries, b)>> :
        a \in StepTimeouts, b \in StepTimeouts}

TimeoutInit ==
    /\ \E l \in SeqsUpTo(SNS, MaxSns), p \in TimedPlans : sns = l /\ plan = p
    /\ dut = BatchOutcomes
    /\ pc = "for_sn"
    /\ snIdx = 1
    /\ stepIdx = 1
    /\ attempt = 1
    /\ fw = "unknown"
    /\ log = <<>>
    /\ sent = <<>>
    /\ last = Uninitialized
    /\ sn_passed = TRUE
    /\ failures = <<>>
    /\ per_sn = [s \in {} |-> SnSummary("unknown", TRUE, <<>>)]
    /\ overall = TRUE
    /\ exit_code = None
    /\ calls = <<>>
    /\ timeouts = DutClient_init
    /\ gate = NoGate
    /\ csv = RunLogger_init(None)
    /\ DutIdle

TimeoutNext == PingFw \/ Attempt \/ StepReturn \/ SnReturn \/ CliExit
TimeoutSpec == TimeoutInit /\ [][TimeoutNext]_vars

-----------------------------------------------------------------------------
(* RunLogger over one run directory: loggers are opened on it and events   *)
(* are logged through them, in any order.                                  *)

MaxLogged == 3

\* the events handed to log: first and later attempts, passed and failed
LoggedEvents ==
    {StepEvent(sn, "1.0.0", StepSpec(id, "READ_TEMP", 1, NoLimits), att,
               [passed |-> out[1], error_code |-> out[2], measurement |-> Null,
                value |-> out[3]]) :
        sn \in {"SN1", "SN2"}, id \in {"read_temp"}, att \in 1..2,
        out \in {<<TRUE, Null, Some(1)>>, <<FALSE, E_TIMEOUT, None>>}}

\* a run directory that does not hold events.csv yet; no runner, no server
LoggerInit == RunnerIdle /\ DutIdle

\* RunLogger(run_dir)
LoggerOpen ==
    /\ pc = "idle"
    /\ csv' = RunLogger_init(csv)
    /\ UNCHANGED <<timeouts, sns, plan, dut, pc, snIdx, stepIdx, attempt, fw, log, sent, last,
                   sn_passed, failures, per_sn, overall, exit_code, calls, gate, dutVars>>

\* logger.log(ev) through a logger opened before
LoggerLog ==
    /\ pc = "idle"
    /\ csv # None
    /\ Len(log) < MaxLogged
    /\ \E ev \in LoggedEvents :
          LET files == RunLogger_log(log, csv, ev)
          IN log' = files.jsonl /\ csv' = files.csv
    /\ UNCHANGED <<timeouts, sns, plan, dut, pc, snIdx, stepIdx, attempt, fw, sent, last,
                   sn_passed, failures, per_sn, overall, exit_code, calls, gate, dutVars>>

LoggerNext == LoggerOpen \/ LoggerLog
LoggerSpec == LoggerInit /\ [][LoggerNext]_vars

-----------------------------------------------------------------------------
(* DutClient.call against an endpoint that may do anything.                *)

MaxCalls == 2

\* call -> call_line -> _send_recv_line
call(ep) == call_line(_send_recv_line(ep))

ClientInit ==
    /\ RunnerIdle
    /\ DutIdle

ClientCall ==
    /\ Len(calls) < MaxCalls
    /\ \E ep \in Endpoints :
          calls' = Append(calls, [endpoint |-> ep, result |-> call(ep)])
    /\ UNCHANGED <<timeouts, sns, plan, dut, pc, snIdx, stepIdx, attempt, fw, log, sent, last,
                   sn_passed, failures, per_sn, overall, exit_code, gate, csv, dutVars>>

ClientNext == ClientCall
ClientSpec == ClientInit /\ [][ClientNext]_vars

-----------------------------------------------------------------------------
(* Analytics (yield_analysis.py): pure functions of the event list.        *)

\* `sns = sorted([sn for sn in by_sn.keys() if sn])`
YieldSns(events) == {events[i].sn : i \in DOMAIN events} \ {""}

\* `steps_sorted = sorted([s for s in all_steps if s])`, all_steps being
\* gathered from the events of those SNs
YieldSteps(events) ==
    {events[i].test_step : i \in {j \in DOMAIN events : events[j].sn \in YieldSns(events)}} \ {""}

\* the events of one (sn, step) key
GroupOf(events, sn, step) ==
    {i \in DOMAIN events : events[i].sn = sn /\ events[i].test_step = step}

\* per_sn_step[key]: walking the SN's events sorted by (step, attempt), an
\* event replaces the kept one when its attempt is >= the kept one's
FinalOf(events, sn, step) ==
    LET g == GroupOf(events, sn, step)
    IN CHOOSE i \in g : \A j \in g :
          \/ events[j].attempt < events[i].attempt
          \/ (events[j].attempt = events[i].attempt /\ j <= i)

\* per_sn_step_any_fail[key]
AnyFail(events, sn, step) == \E i \in GroupOf(events, sn, step) : ~events[i].passed

\* first-pass judged on the attempt-1 events alone
unit_first_pass_ok_firstAttempt(events, sn) ==
    \A step \in YieldSteps(events) :
        \E i \in GroupOf(events, sn, step) : events[i].attempt = 1 /\ events[i].passed

unit_first_pass_ok(events, sn) ==
    \A step \in YieldSteps(events) :
        /\ GroupOf(events, sn, step) # {}
        /\ LET final_ev == events[FinalOf(events, sn, step)]
           IN final_ev.passed /\ final_ev.attempt = 1 /\ ~AnyFail(events, sn, step)

unit_final_ok(events, sn) ==
    \A step \in YieldSteps(events) :
        /\ GroupOf(events, sn, step) # {}
        /\ events[FinalOf(events, sn, step)].passed

FlakyInstances(events) ==
    {<<sn, step>> \in YieldSns(events) \X YieldSteps(events) :
        /\ GroupOf(events, sn, step) # {}
        /\ AnyFail(events, sn, step)
        /\ events[FinalOf(events, sn, step)].passed}

StepInstances(events) ==
    {<<sn, step>> \in YieldSns(events) \X YieldSteps(events) : GroupOf(events, sn, step) # {}}

\* `(n / total_units) if total_units else 0.0`, as a fraction
Ratio(n, d) == IF d # 0 THEN [num |-> n, den |-> d] ELSE [num |-> 0, den |-> 1]

compute_yields(events) ==
    [total_units |-> Cardinality(YieldSns(events)),
     overall_pass_first_pass |->
         Cardinality({sn \in YieldSns(events) : unit_first_pass_ok(events, sn)}),
     overall_pass_final |->
         Cardinality({sn \in YieldSns(events) : unit_final_ok(events, sn)}),
     fpy |-> Ratio(Cardinality({sn \in YieldSns(events) : unit_first_pass_ok(events, sn)}),
                   Cardinality(YieldSns(events))),
     fty |-> Ratio(Cardinality({sn \in YieldSns(events) : unit_final_ok(events, sn)}),
                   Cardinality(YieldSns(events))),
     flaky_instances |-> Cardinality(FlakyInstances(events)),
     total_step_instances |-> Cardinality(StepInstances(events)),
     flaky_rate |-> Ratio(Cardinality(FlakyInstances(events)),
                          Cardinality(StepInstances(events)))]

-----------------------------------------------------------------------------
(* compute_yields on the event lists a log may hold: events of two SNs and *)
(* two steps, with any attempt numbers and outcomes, in any order.         *)

MaxYieldEvents == 3

YieldEvents ==
    {StepEvent(sn, "1.0.0", StepSpec(id, "READ_TEMP", 1, NoLimits), att,
               [passed |-> p, error_code |-> IF p THEN Null ELSE E_TIMEOUT,
                measurement |-> Null, value |-> None]) :
        sn \in {"SN1", "SN2"}, id \in {"ping", "read_temp"}, att \in 1..2, p \in BOOLEAN}

YieldInit == RunnerIdle /\ DutIdle

\* one more event in the list handed to compute_yields
YieldAppend ==
    /\ Len(log) < MaxYieldEvents
    /\ \E ev \in YieldEvents :
          LET files == RunLogger_log(log, csv, ev)
          IN log' = files.jsonl /\ csv' = files.csv
    /\ UNCHANGED <<timeouts, sns, plan, dut, pc, snIdx, stepIdx, attempt, fw, sent, last,
                   sn_passed, failures, per_sn, overall, exit_code, calls, gate, dutVars>>

YieldNext == YieldAppend
YieldSpec == YieldInit /\ [][YieldNext]_vars

-----------------------------------------------------------------------------
(* Stratification (stratification.py): FTY by temperature bin.             *)

\* _final_pass_by_sn: sn -> every step seen in the log has a final event
\* (maximum attempt, the later of equals) for the SN, and it passed
_final_pass_by_sn(events) ==
    LET steps == {events[i].test_step : i \in DOMAIN events} \ {""}
        units == {events[i].sn : i \in DOMAIN events} \ {""}
    IN [sn \in units |->
          \A step \in steps :
              /\ GroupOf(events, sn, step) # {}
              /\ events[FinalOf(events, sn, step)].passed]

\* the events whose value enters temps[sn]
TempEvents(events, sn) ==
    {i \in DOMAIN events :
        /\ events[i].sn = sn
        /\ events[i].measurement = "temp_c"
        /\ events[i].passed
        /\ events[i].value # None}

RECURSIVE SumOfValues(_, _)
SumOfValues(events, I) ==
    IF I = {} THEN 0
    ELSE LET i == CHOOSE k \in I : TRUE
         IN events[i].value[1] + SumOfValues(events, I \ {i})

\* the bin of avg = total / n
temp_bin(total, n) ==
    IF total < 20 * n THEN "<20C"
    ELSE IF total < 30 * n THEN "20-30C"
    ELSE IF total < 40 * n THEN "30-40C"
    ELSE ">=40C"

\* group_by_sn for key = "temp_bin": the SNs that have temps
group_by_sn(events) ==
    LET withTemps == {sn \in {events[i].sn : i \in DOMAIN events} :
                         TempEvents(events, sn) # {}}
    IN [sn \in withTemps |->
          temp_bin(SumOfValues(events, TempEvents(events, sn)),
                   Cardinality(TempEvents(events, sn)))]

StratRow(key, group, units, fty) ==
    [key |-> key, group |-> group, units |-> units, fty |-> fty]

\* the aggregation: `g = group_by_sn.get(sn, "UNKNOWN")` over final_pass
Aggregate_grouped_only(final_pass, groups_of) ==
    LET named == {groups_of[sn] : sn \in DOMAIN final_pass \cap DOMAIN groups_of}
    IN {LET members == {sn \in DOMAIN final_pass \cap DOMAIN groups_of : groups_of[sn] = g}
        IN StratRow("temp_bin", g, Cardinality(members),
                    Ratio(Cardinality({sn \in members : final_pass[sn]}),
                          Cardinality(members))) : g \in named}
Aggregate(final_pass, groups_of) ==
    LET get(sn) == IF sn \in DOMAIN groups_of THEN groups_of[sn] ELSE "UNKNOWN"
        named == {get(sn) : sn \in DOMAIN final_pass}
    IN {LET members == {sn \in DOMAIN final_pass : get(sn) = g}
        IN StratRow("temp_bin", g, Cardinality(members),
                    Ratio(Cardinality({sn \in members : final_pass[sn]}),
                          Cardinality(members))) : g \in named}

\* stratify(events, key="temp_bin"): the rows, one per group
stratify_temp_bin(events) == Aggregate(_final_pass_by_sn(events), group_by_sn(events))

-----------------------------------------------------------------------------
(* Pareto of failures (pareto.py).                                         *)

\* str(ev.get("error_code", "")): None reads "None"
PyStr(v) == IF v = Null THEN "None" ELSE v

\* the keys that occur, in the order Python compares str
KeysAscending ==
    <<"", "B1", "E_BAD_ARGS", "E_BAD_RESP", "E_BUSY", "E_CLIENT", "E_INTERNAL",
      "E_OUT_OF_RANGE", "E_TIMEOUT", "E_UNKNOWN_CMD", "LIMIT_FAIL", "None", "ping",
      "read_temp">>
KeyRank(k) == CHOOSE i \in DOMAIN KeysAscending : KeysAscending[i] = k

\* one dict of pareto_failures: key -> number of failed events with that key,
\* keys[i] being the key of events[i]
FailedCounts_perInstance(events, keys) ==
    LET failed == {i \in DOMAIN events : ~events[i].passed}
    IN [k \in {keys[i] : i \in failed} |->
          Cardinality({<<events[i].sn, events[i].test_step>> :
                          i \in {j \in failed : keys[j] = k}})]
FailedCounts(events, keys) ==
    LET failed == {i \in DOMAIN events : ~events[i].passed}
    IN [k \in {keys[i] : i \in failed} |-> Cardinality({i \in failed : keys[i] = k})]

pareto_failures(events) ==
    [by_step |-> FailedCounts(events, [i \in DOMAIN events |-> events[i].test_step]),
     by_error |-> FailedCounts(events, [i \in DOMAIN events |-> PyStr(events[i].error_code)]),
     by_batch |-> FailedCounts(events, [i \in DOMAIN events |-> events[i].batch_id])]

\* sorted(m.items(), key=lambda kv: (-kv[1], kv[0]))
SortsBefore(m, a, b) == m[a] > m[b] \/ (m[a] = m[b] /\ KeyRank(a) < KeyRank(b))

RECURSIVE SortedItems(_)
SortedItems(m) ==
    IF DOMAIN m = {} THEN <<>>
    ELSE LET k == CHOOSE a \in DOMAIN m : \A b \in DOMAIN m \ {a} : SortsBefore(m, a, b)
         IN <<[name |-> k, failed_attempts |-> m[k]]>>
            \o SortedItems([x \in DOMAIN m \ {k} |-> m[x]])

\* write_pareto_csv: the rows of pareto_<key>.csv under the header
write_pareto_csv(counts) == [key \in DOMAIN counts |-> SortedItems(counts[key])]

-----------------------------------------------------------------------------
(* Vocabulary of the properties.                                           *)

\* an event that ends its step: it passed, or it was the last attempt allowed
Terminal(e) == e.passed \/ e.attempt = e.retries_allowed + 1

Distinct(s) == \A i, j \in DOMAIN s : s[i] = s[j] => i = j

\* the latest event logged for (sn, step id)
LastEventOf(sn, id) ==
    log[CHOOSE i \in GroupOf(log, sn, id) : \A j \in GroupOf(log, sn, id) : j <= i]

\* run_step invocations that have logged their first attempt
StepRunsBegun ==
    (snIdx - 1) * Len(plan)
    + CASE pc = "attempt" -> (stepIdx - 1) + (IF attempt > 1 THEN 1 ELSE 0)
        [] pc = "step_ret" -> stepIdx
        [] pc = "sn_ret" -> Len(plan)
        [] OTHER -> 0

StepRequests == SelectSeq(sent, LAMBDA r : r.site = "run_step")
PingRequests == SelectSeq(sent, LAMBDA r : r.site = "_ping_fw")


-----------------------------------------------------------------------------
(* Properties of the runner and of its event log.                          *)

\* C1: in the event log written by run_batch, every (sn, test_step) group
\* holds exactly one terminal event (passed, or attempt = retries_allowed + 1),
\* for every SN list and every valid plan.
C1_OneTerminalPerGroup ==
    pc = "exit" =>
        \A i \in DOMAIN log :
            Cardinality({j \in GroupOf(log, log[i].sn, log[i].test_step) : Terminal(log[j])}) = 1

\* C2: an event's will_retry equals (not passed and attempt <= retries_allowed),
\* whatever its error code, and it is true exactly when the runner goes on to
\* the next attempt of the same (sn, step): the event logged next is that
\* attempt's, or, for the latest event, the runner is about to make it.
C2_RetryIffAttemptsLeft ==
    \A i \in DOMAIN log :
        LET e == log[i] IN
        /\ e.will_retry = (~e.passed /\ e.attempt <= e.retries_allowed)
        /\ i < Len(log) =>
              (e.will_retry <=>
                  /\ log[i + 1].sn = e.sn
                  /\ log[i + 1].test_step = e.test_step
                  /\ log[i + 1].attempt = e.attempt + 1)
        /\ i = Len(log) =>
              (e.will_retry <=>
                  /\ pc = "attempt"
                  /\ attempt = e.attempt + 1
                  /\ sns[snIdx] = e.sn
                  /\ plan[stepIdx].id = e.test_step)

\* a failure without an error code was retried, and the failure of the last
\* attempt allowed was not
C2_Witness ==
    /\ pc = "exit"
    /\ Len(log) = 2
    /\ ~log[1].passed /\ log[1].error_code = Null /\ log[1].will_retry
    /\ ~log[2].passed /\ log[2].error_code = "E_BAD_RESP" /\ ~log[2].will_retry

\* C3: every event has 1 <= attempt <= retries_allowed + 1 and
\* retry_count = attempt - 1; run_step has logged at least one attempt of its
\* step when it returns; a step with retries = 0 produces attempt 1 only.
C3_AttemptBounds ==
    /\ \A i \in DOMAIN log :
          /\ 1 <= log[i].attempt
          /\ log[i].attempt <= log[i].retries_allowed + 1
          /\ log[i].retry_count = log[i].attempt - 1
          /\ log[i].retries_allowed = 0 => log[i].attempt = 1
    /\ pc = "step_ret" =>
          /\ Len(log) >= 1
          /\ log[Len(log)].sn = sns[snIdx]
          /\ log[Len(log)].test_step = plan[stepIdx].id
          /\ last = StepAttemptResult(log[Len(log)].passed, log[Len(log)].error_code)

\* a step used up its retries, and a step without retries returned
C3_Witness ==
    /\ pc = "step_ret"
    /\ plan[stepIdx].retries >= 1
    /\ log[Len(log)].attempt = plan[stepIdx].retries + 1
    /\ log[Len(log)].retry_count = plan[stepIdx].retries

\* C4: every event with passed = true has error_code = null, whatever the
\* client returned for the attempt.
C4_PassedHasNoErrorCode ==
    \A i \in DOMAIN log : log[i].passed => log[i].error_code = Null

\* C5: each DUT call of run_step appends exactly one event and the
\* firmware-discovery PING appends none; the events of one run of a step carry
\* the attempts 1, 2, ..., k in log order, and none follows a passed one.
C5_OneEventPerCall ==
    /\ Len(log) = Len(StepRequests)
    /\ \A i \in DOMAIN log :
          /\ StepRequests[i].sn = log[i].sn
          /\ StepRequests[i].cmd = log[i].command
          /\ \/ log[i].attempt = 1
             \/ /\ i > 1
                /\ log[i - 1].sn = log[i].sn
                /\ log[i - 1].test_step = log[i].test_step
                /\ log[i - 1].attempt + 1 = log[i].attempt
                /\ ~log[i - 1].passed
    /\ Cardinality({i \in DOMAIN log : log[i].attempt = 1}) = StepRunsBegun
    /\ Len(PingRequests) = (IF pc \in {"for_sn", "exit"} THEN snIdx - 1 ELSE snIdx)

\* a retried step that then passed, after one firmware-discovery PING
C5_Witness ==
    /\ pc = "exit"
    /\ Len(sent) = 3
    /\ Len(PingRequests) = 1
    /\ Len(log) = 2
    /\ log[1].attempt = 1 /\ ~log[1].passed
    /\ log[2].attempt = 2 /\ log[2].passed

\* C6: run_sn returns passed = true iff the last attempt of every step of the
\* plan passed; every step is run whatever failed before it; failures holds
\* one entry per step whose last attempt failed, in plan order.
C6_SnPassedIffAllStepsPassed ==
    pc = "sn_ret" =>
        LET sn == sns[snIdx]
            failed == {k \in DOMAIN plan : ~LastEventOf(sn, plan[k].id).passed}
        IN /\ Cardinality({i \in DOMAIN log : log[i].attempt = 1}) = snIdx * Len(plan)
           /\ \A k \in DOMAIN plan : GroupOf(log, sn, plan[k].id) # {}
           /\ sn_passed = (failed = {})
           /\ Len(failures) = Cardinality(failed)
           /\ \A k \in failed : \E j \in DOMAIN failures :
                 /\ failures[j].step_id = plan[k].id
                 /\ failures[j].error_code = LastEventOf(sn, plan[k].id).error_code
           /\ \A j \in DOMAIN failures : \E k \in failed : failures[j].step_id = plan[k].id
           /\ \A j1, j2 \in DOMAIN failures :
                 j1 < j2 => \E k1, k2 \in failed :
                     /\ k1 < k2
                     /\ failures[j1].step_id = plan[k1].id
                     /\ failures[j2].step_id = plan[k2].id

\* the first of two steps failed, the second was still run and passed
C6_Witness ==
    /\ pc = "sn_ret"
    /\ Len(plan) = 2
    /\ ~LastEventOf(sns[snIdx], plan[1].id).passed
    /\ LastEventOf(sns[snIdx], plan[2].id).passed
    /\ ~sn_passed
    /\ Len(failures) = 1

\* C7: overall_passed is the conjunction of the outcomes of all the SNs run
\* (an SN's outcome being that the last attempt of each of its steps passed),
\* and the batch CLI exits with 0 iff overall_passed and with 1 otherwise.
C7_OverallIsConjunction ==
    /\ pc \in {"for_sn", "exit"} =>
          /\ overall = (\A i \in DOMAIN log : Terminal(log[i]) => log[i].passed)
          /\ Distinct(sns) =>
                overall = (\A k \in 1..(snIdx - 1) : per_sn[sns[k]].passed)
    /\ pc = "exit" =>
          /\ exit_code \in {Some(0), Some(1)}
          /\ exit_code = Some(0) <=> overall
    /\ pc # "exit" => exit_code = None

\* a batch of two SNs, the first failed and the second passed: exit status 1
C7_Witness ==
    /\ pc = "exit"
    /\ Len(sns) = 2
    /\ Distinct(sns)
    /\ Len(plan) >= 1
    /\ ~per_sn[sns[1]].passed
    /\ per_sn[sns[2]].passed
    /\ exit_code = Some(1)

\* the SNs all of whose steps passed at attempt 1, as the runner saw them
RunnerFirstPass ==
    {sn \in Range(sns) : \A k \in DOMAIN plan :
        \E i \in GroupOf(log, sn, plan[k].id) : log[i].attempt = 1 /\ log[i].passed}

\* C8: for the log of one run_batch over distinct SNs and a plan with at
\* least one step, compute_yields reports total_units = number of SNs,
\* overall_pass_final = number of SNs whose SnSummary.passed is true and
\* overall_pass_first_pass = number of SNs all of whose steps passed at
\* attempt 1.
C8_YieldsAgreeWithRunner ==
    (pc = "exit" /\ Distinct(sns) /\ Len(plan) >= 1) =>
        LET y == compute_yields(log)
        IN /\ y.total_units = Len(sns)
           /\ y.overall_pass_final = Cardinality({sn \in Range(sns) : per_sn[sn].passed})
           /\ y.overall_pass_first_pass = Cardinality(RunnerFirstPass)

\* C9: no two events of a run share (run_id, sn, test_step, attempt), for
\* every SN list passed to run_batch.
C9_PrimaryKey ==
    \A i, j \in DOMAIN log :
        (/\ log[i].run_id = log[j].run_id
         /\ log[i].sn = log[j].sn
         /\ log[i].test_step = log[j].test_step
         /\ log[i].attempt = log[j].attempt) => i = j

-----------------------------------------------------------------------------
(* Properties of the DUT server.                                           *)

\* the first two READ_TEMP requests dispatched for sn
ReadTemps(sn) == SelectSeq(replies, LAMBDA r : r.cmd = "READ_TEMP" /\ r.sn = sn)

\* C10: with busy.min_interval_ms > 0 and all fault probabilities 0, of two
\* READ_TEMP requests for one SN evaluated within min_interval_ms of each
\* other, the first is passed on to the device model (ok response) and the
\* second is answered E_BUSY.
C10_FirstPassesSecondBusy ==
    (/\ profile.min_interval_ms > 0
     /\ profile.busy_p = 0 /\ profile.fail_p = 0 /\ profile.timeout_p = 0
     /\ ~profile.markov_enabled) =>
        \A sn \in SNS :
            LET rt == ReadTemps(sn)
            IN (Len(rt) >= 2 /\ rt[2].at - rt[1].at < profile.min_interval_ms) =>
                  /\ rt[1].ok /\ rt[1].action = "PASS"
                  /\ ~rt[2].ok /\ rt[2].error_code = E_BUSY

\* the records of FaultInjector.evaluate, in call order
Evaluations ==
    [i \in 1..Len(SelectSeq(replies, LAMBDA r : r.trace # None)) |->
        SelectSeq(replies, LAMBDA r : r.trace # None)[i].trace[1]]

\* C11: with the Markov chain enabled, every evaluate call makes exactly one
\* transition of the (sn, cmd) chain, and the fail add-on and the timeout
\* add-on of the call are computed from the same chain state.
C11_ChainSteppedOncePerEvaluate ==
    profile.markov_enabled =>
        \A i \in DOMAIN Evaluations :
            LET chain == Evaluations[i].chain
            IN /\ Len(chain) = 1
               /\ \A j, k \in DOMAIN chain : chain[j] = chain[k]

\* the cascade of the injector, in its order of precedence
Precedence == <<"BUSY_RATE_LIMIT", "BUSY_P", "FAIL", "TIMEOUT">>

\* the check of dec on which it was decided, or "none"
FiredStage(dec) ==
    IF \E k \in DOMAIN dec.stages : dec.stages[k].fired
    THEN dec.stages[CHOOSE k \in DOMAIN dec.stages : dec.stages[k].fired].stage
    ELSE "none"

\* C14: every evaluate call returns one action; it makes its checks in the
\* order rate limit, probabilistic BUSY, fail, timeout, goes on to a check
\* only when none before it fired, stops at the first that fires (E_BUSY,
\* E_BUSY, E_INTERNAL, DELAY or DROP), and returns PASS only when none fired.
C14_OneActionByPrecedence ==
    \A i \in DOMAIN Evaluations :
        LET dec == Evaluations[i]
            n == Len(dec.stages)
        IN /\ dec.action \in {"RESPOND", "DELAY", "DROP", "PASS"}
           /\ n \in 1..Len(Precedence)
           /\ \A k \in 1..n : dec.stages[k].stage = Precedence[k]
           /\ \A k \in 1..(n - 1) : ~dec.stages[k].fired
           /\ FiredStage(dec) = "none" <=> (dec.action = "PASS" /\ n = Len(Precedence))
           /\ FiredStage(dec) \in {"BUSY_RATE_LIMIT", "BUSY_P"} <=>
                  (dec.action = "RESPOND" /\ dec.error_code = E_BUSY)
           /\ FiredStage(dec) = "FAIL" <=>
                  (dec.action = "RESPOND" /\ dec.error_code = E_INTERNAL)
           /\ FiredStage(dec) = "TIMEOUT" <=> dec.action \in {"DELAY", "DROP"}

\* one server has decided by its fail check although its timeout check could
\* fire too, has decided by its timeout check, and has passed a request
C14_Witness ==
    /\ profile.fail_p > 0 /\ profile.timeout_p > 0
    /\ \E i, j, k \in DOMAIN Evaluations :
          /\ FiredStage(Evaluations[i]) = "FAIL"
          /\ FiredStage(Evaluations[j]) = "TIMEOUT"
          /\ Evaluations[k].action = "PASS"


\* a step that dispatched a line, and the record of that dispatch
Dispatched == Len(replies') = Len(replies) + 1
Latest == replies'[Len(replies')]

\* the commands of the protocol and their argument counts
Arity == [PING |-> 1, READ_TEMP |-> 1, SELF_TEST |-> 1, SET_TEMP |-> 2, SET_FAULT_PROFILE |-> 1]
SnBearing == {"PING", "READ_TEMP", "SELF_TEST", "SET_TEMP"}
CommandOf(line) == Upper(Head(line))
WrongArity(line) ==
    /\ line \notin {BlankLine, BadUtf8}
    /\ CommandOf(line) \in DOMAIN Arity
    /\ Len(line) - 1 # Arity[CommandOf(line)]
UnknownCommand(line) ==
    /\ line \notin {BlankLine, BadUtf8}
    /\ CommandOf(line) \notin DOMAIN Arity

\* C15: every PING, READ_TEMP, SELF_TEST or SET_TEMP request that passes the
\* argument validation adds the profile's drift to the device's drift offset,
\* whatever the injector then decides.
C15_DriftOnEverySnRequest ==
    [][(/\ Dispatched
        /\ Latest.cmd \in SnBearing
        /\ Latest.error_code \notin {E_BAD_ARGS, E_OUT_OF_RANGE}) =>
            devices'[Latest.sn].drift_offset_c =
                get_or_create(devices, Latest.sn).drift_offset_c + profile.drift_c]_vars

\* C18: a line with the wrong number of arguments for a known command is
\* answered E_BAD_ARGS and a line with any other command token E_UNKNOWN_CMD;
\* the dispatch leaves the devices and the fault contexts as they were, draws
\* nothing from the generator, and the connection stays open.
C18_RejectedWithoutSideEffect ==
    [][(Dispatched /\ (WrongArity(Latest.line) \/ UnknownCommand(Latest.line))) =>
          /\ Latest.sent /\ ~Latest.ok
          /\ Latest.error_code =
                IF WrongArity(Latest.line) THEN E_BAD_ARGS ELSE E_UNKNOWN_CMD
          /\ devices' = devices
          /\ faultCtx' = faultCtx
          /\ Latest.draws = 0
          /\ \A c \in DOMAIN conns :
                conns[c].state = "open" => conns'[c].state = "open"]_vars

\* a device and a fault context exist, and the line after the request that
\* made them had the wrong number of arguments
C18_Witness ==
    /\ Len(replies) = 2
    /\ replies[1].ok /\ replies[1].draws > 0
    /\ DOMAIN devices # {} /\ DOMAIN faultCtx # {}
    /\ WrongArity(replies[2].line)
    /\ replies[2].error_code = E_BAD_ARGS
    /\ \A c \in DOMAIN conns : conns[c].state = "open" /\ Len(conns[c].out) = 2

\* the temp_c tokens that denote a float in [-40.0, 125.0]
InRangeFloat(tok) == tok \in {"-40.0", "30.5", "125.0"}

\* C19: SET_TEMP <sn> <temp_c> is accepted only when temp_c is a float in
\* [-40.0, 125.0], bounds included; with any other temp_c the answer is
\* E_OUT_OF_RANGE and no device changes.
C19_SetTempRange ==
    [][(/\ Dispatched
        /\ Len(Latest.line) = 3
        /\ CommandOf(Latest.line) = "SET_TEMP") =>
            IF InRangeFloat(Latest.line[3])
            THEN Latest.error_code \notin {E_BAD_ARGS, E_OUT_OF_RANGE}
            ELSE /\ Latest.sent /\ ~Latest.ok
                 /\ Latest.error_code = E_OUT_OF_RANGE
                 /\ devices' = devices]_vars

\* C20: every response sent has ok = true => error_code = null, and
\* ok = false => data = {} and error_code in the error taxonomy.
C20_ResponseShape ==
    \A i \in DOMAIN replies :
        replies[i].sent =>
            /\ replies[i].ok => replies[i].error_code = Null
            /\ ~replies[i].ok =>
                  /\ replies[i].data = EmptyData
                  /\ replies[i].error_code \in Taxonomy

\* a device answer with data and an error answer made from the injector's
\* decision have been sent
C20_Witness ==
    \E i, j \in DOMAIN replies :
        /\ replies[i].sent /\ replies[i].ok /\ replies[i].data # EmptyData
        /\ replies[j].sent /\ ~replies[j].ok /\ replies[j].action = "RESPOND"

-----------------------------------------------------------------------------
(* Two DutServer instances side by side: the same determinism.seed, the    *)
(* same fault profile and the same request lines in the same order, each   *)
(* instance on its own wall clock.                                         *)
(*                                                                         *)
(* random.Random is a generator whose stream is a function of its seed; it *)
(* is stood for by a congruential generator on RngStates.                  *)

MaxTwinRequests == 2
Seeds == {0, 1, 2}                  \* determinism.seed in the config
RngStates == 0..7
TwinGaps == {0, 1000}               \* ms between two requests at an instance
TwinLines == {<<"READ_TEMP", "SN1">>, <<"READ_TEMP", "SN2">>, <<"PING", "SN1">>}
TwinProfiles == {CleanProfile, FaultProfile(0, 0, 50, 50, "delay", 1, FALSE)}

\* `seed = int(... or 0) or None`
seed_of(cfg_seed) == IF cfg_seed = 0 THEN None ELSE Some(cfg_seed)

\* random.Random(seed): the states the generator can start in; with seed None
\* it is seeded from the operating system's entropy
Random(seed) == IF seed = None THEN RngStates ELSE {seed[1] % 8}

\* rng.random(): the draw (in percent) and the generator's next state
rng_random(s) == [u |-> (s * 14) % 100, next |-> (5 * s + 3) % 8]

\* the k-th draw from state s on
RECURSIVE DrawAt(_, _)
DrawAt(s, k) == IF k <= 1 THEN rng_random(s).u ELSE DrawAt(rng_random(s).next, k - 1)

\* the state after n draws
RECURSIVE Advance(_, _)
Advance(s, n) == IF n = 0 THEN s ELSE Advance(rng_random(s).next, n - 1)

\* rng.gauss(0.0, temp_noise_sigma), in units of 0.0001 degC: a function of
\* the draws it takes
gauss(u) == (u - 49) * 10

\* _update_signals: temp_c += 0.01 * dt * (random() - 0.5), clamped to
\* [-40, 125]; dt in ms, temp_c in units of 0.0001 degC
_update_signals(temp_c, dt, u) ==
    LET walked == temp_c + (dt * (u - 50)) \div 1000
    IN IF walked < TEMP_C_MIN THEN TEMP_C_MIN
       ELSE IF walked > TEMP_C_MAX THEN TEMP_C_MAX ELSE walked

\* one step of the configured drift (temp_offset_per_cycle_c, 0.01 degC) in
\* units of 0.0001 degC
DriftStep == 100

\* one instance: its generator, DeviceModel._devices with each device's
\* last_update_s, FaultInjector._ctx, its wall clock, the bodies it has sent
Instance(rng, devs, last_update_s, ctxs, clock, bodies) ==
    [rng |-> rng, devices |-> devs, last_update_s |-> last_update_s,
     faultCtx |-> ctxs, clock |-> clock, bodies |-> bodies]

\* the response body: ok, error_code and data; nothing is sent on DROP
Body(reply, data) ==
    IF reply.sent THEN Some([ok |-> reply.ok, error_code |-> reply.error_code, data |-> data])
    ELSE None

\* the instance after _dispatch(line) at gap ms after its previous request:
\* evaluate draws for should_busy (if busy.p > 0), for each _markov_step, for
\* should_fail and for should_timeout, in this order; ping and read_temp then
\* draw twice in _update_signals, and read_temp's gauss draws for the noise
Serve(prof, inst, line, gap) ==
    LET t == inst.clock + gap
        cmd == line[1]
        sn == line[2]
        nB == IF prof.busy_p > 0 THEN 1 ELSE 0
        m == IF prof.markov_enabled THEN 1 ELSE 0
        \* get_or_create: last_update_s = time.time() for a new device
        last_s == IF sn \in DOMAIN inst.last_update_s THEN inst.last_update_s[sn] ELSE t
        dt == IF t - last_s > 0 THEN t - last_s ELSE 0
        \* the device operation's signals, after _dispatch returned out
        Signals(out) ==
            LET served == out.reply.ok
                evalDraws == out.reply.trace[1].draws
                d == out.devices[sn]
                walked == _update_signals(d.temp_c[1], dt, DrawAt(inst.rng, evalDraws + 1))
                temp_meas == walked + d.drift_offset_c * DriftStep
                                 + gauss(DrawAt(inst.rng, evalDraws + 3))
                data == IF served /\ cmd = "READ_TEMP"
                        THEN [sn |-> sn, temp_c |-> temp_meas, cycles |-> d.cycles]
                        ELSE out.reply.data
            IN Instance(Advance(inst.rng, out.reply.draws),
                        IF served
                        THEN (sn :> DeviceState(d.cycles, d.drift_offset_c, Float(walked)))
                                 @@ out.devices
                        ELSE out.devices,
                        (sn :> (IF served THEN t ELSE last_s)) @@ inst.last_update_s,
                        out.faultCtx, t,
                        Append(inst.bodies, Body(out.reply, data)))
    IN CHOOSE next \in
           {Signals(out) : out \in
               {_dispatch(prof, inst.devices, inst.faultCtx, line, t, 0,
                          DrawAt(inst.rng, 1), DrawAt(inst.rng, nB + 1),
                          DrawAt(inst.rng, nB + m + 1), DrawAt(inst.rng, nB + m + 2),
                          DrawAt(inst.rng, nB + 2 * m + 2), 99)}} : TRUE

\* DutServer.__init__, twice, with the same config
TwinInit ==
    /\ \E cfg_seed \in Seeds, prof \in TwinProfiles :
       \E rngA \in Random(seed_of(cfg_seed)), rngB \in Random(seed_of(cfg_seed)) :
          twin = [seed |-> cfg_seed, profile |-> prof, lines |-> <<>>,
                  a |-> Instance(rngA, <<>>, <<>>, <<>>, 10, <<>>),
                  b |-> Instance(rngB, <<>>, <<>>, <<>>, 10, <<>>)]
    /\ profile = Null
    /\ now = 0
    /\ faultCtx = <<>>
    /\ devices = <<>>
    /\ replies = <<>>
    /\ ServerIdle
    /\ RunnerIdle

\* the same request line reaches both instances, each at its own time
TwinRequest ==
    /\ Len(twin.lines) < MaxTwinRequests
    /\ \E line \in TwinLines, gapA \in TwinGaps, gapB \in TwinGaps :
          twin' = [twin EXCEPT !.lines = Append(@, line),
                               !.a = Serve(twin.profile, @, line, gapA),
                               !.b = Serve(twin.profile, @, line, gapB)]
    /\ UNCHANGED <<profile, now, faultCtx, devices, replies, srvVars, runnerVars>>

TwinNext == TwinRequest
TwinSpec == TwinInit /\ [][TwinNext]_vars

-----------------------------------------------------------------------------
(* Properties of the threaded server.                                      *)

\* the handlers that are inside _dispatch
InDispatch == {c \in DOMAIN conns : conns[c].pc \in {"drift", "burn_in"}}

\* the dispatches for sn that went through apply_drift, and those that went
\* through _apply_burn_in
Drifted(sn) ==
    SelectSeq(replies, LAMBDA r :
        r.sn = sn /\ r.trace # None /\ r.cmd \in {"PING", "READ_TEMP", "SELF_TEST"})
BurntIn(sn) ==
    SelectSeq(replies, LAMBDA r : r.sn = sn /\ r.ok /\ r.cmd \in {"READ_TEMP", "SELF_TEST"})

\* C12: at most one connection task is inside a dispatch at a time, and once
\* the dispatches are over each device's drift offset and cycle count are
\* what the same dispatches leave when run one after the other: one drift
\* step per drifted request and one cycle per READ_TEMP / SELF_TEST served.
C12_DispatchesSerialised ==
    /\ Cardinality(InDispatch) <= 1
    /\ InDispatch = {} =>
          \A sn \in DOMAIN devices :
              /\ devices[sn].drift_offset_c = profile.drift_c * Len(Drifted(sn))
              /\ devices[sn].cycles = Len(BurntIn(sn))

NonBlank(ls) == SelectSeq(ls, LAMBDA l : l # BlankLine)

\* the lines of c its handler has taken from the buffer so far
TakenUp(c) ==
    SubSeq(conns[c].lines, 1,
           Len(conns[c].lines) - Len(conns[c].wire) - Len(conns[c].buf))

\* the handler of c takes a blank line from the buffer in this step
TakesBlank(c) ==
    /\ conns[c].pc = "lines" /\ conns[c].buf # <<>> /\ Head(conns[c].buf) = BlankLine
    /\ Len(conns'[c].buf) = Len(conns[c].buf) - 1

\* the responses on c answer, one each and in order, the non-blank lines
\* taken up, but for the line in dispatch or dropped
AnsweredInOrder(c) ==
    LET due == NonBlank(TakenUp(c))
        out == conns[c].out
        open == IF c \in InDispatch \/ conns[c].pc = "dropped" THEN 1 ELSE 0
    IN /\ Len(out) = Len(due) - open
       /\ \A i \in DOMAIN out : out[i].line = due[i] /\ out[i].sent
       /\ conns[c].pc = "dropped" => conns[c].state = "closed"

\* C16: on each connection the responses answer the non-blank lines in
\* arrival order, one per line; a blank line is answered by nothing and
\* changes no state; after a DROP the connection carries no further response.
C16_ResponsesInRequestOrder ==
    /\ [](\A c \in DOMAIN conns : AnsweredInOrder(c))
    /\ [][\A c \in DOMAIN conns :
            /\ TakesBlank(c) =>
                  /\ UNCHANGED <<profile, faultCtx, devices, replies>>
                  /\ conns'[c].out = conns[c].out
            /\ conns[c].state = "closed" => conns'[c].out = conns[c].out]_vars

\* one connection has had two different requests answered in their order
C16_Witness ==
    \E c \in DOMAIN conns :
        /\ Len(conns[c].out) = 2
        /\ conns[c].out[1].line # conns[c].out[2].line
        /\ conns[c].lines = <<conns[c].out[1].line, conns[c].out[2].line>>

\* C17: once stop() has been called, serve_forever returns in the end and
\* accepts no connection after stop() has closed the socket, and every
\* running handler exits in the end, taking up at most one more line.
C17_ShutdownDrains ==
    /\ stop ~> (listener = "returned")
    /\ [][(stop /\ sock = "closed") =>
            \A c \in DOMAIN conns :
                conns[c].state = "pending" => conns'[c].state = "pending"]_vars
    /\ stop ~> (\A c \in DOMAIN conns : conns[c].state # "open")
    /\ [](\A c \in DOMAIN conns : conns[c].late <= 1)

-----------------------------------------------------------------------------
(* Determinism of the server.                                              *)

\* C13: two instances with the same determinism.seed and fault profile, fed
\* the same request lines in the same order, have sent identical response
\* bodies, whatever the times at which the requests reached each of them.
C13_SameSeedSameBodies == twin # NoTwin => twin.a.bodies = twin.b.bodies

-----------------------------------------------------------------------------
(* Properties of the profile switch.                                       *)

\* the fault context key of the request just dispatched
LatestKey == <<Latest.sn, Latest.cmd>>

\* C21: an accepted SET_FAULT_PROFILE changes the active profile and nothing
\* else: every FaultContext and every DeviceState stays as it was; and an
\* evaluation for (sn, cmd) goes on from the Markov state its context held,
\* stepping it under a Markov profile and keeping it under any other.
C21_SwitchKeepsContexts ==
    [][/\ (Dispatched /\ Latest.cmd = "SET_FAULT_PROFILE" /\ Latest.ok) =>
            /\ profile' = _set_profile(Latest.line[2])
            /\ faultCtx' = faultCtx
            /\ devices' = devices
       /\ (Dispatched /\ Latest.trace # None /\ LatestKey \in DOMAIN faultCtx) =>
            LET before == faultCtx[LatestKey].markov_state
                dec == Latest.trace[1]
            IN IF dec.chain = <<>>
               THEN faultCtx'[LatestKey].markov_state = before
               ELSE dec.chain[1] \in {_markov_step(profile, before, u) : u \in Draws}]_vars

\* a request left its chain BAD, the profile was then switched, and the same
\* (sn, cmd) was evaluated again under the new profile
C21_Witness ==
    /\ Len(replies) = 3
    /\ replies[1].trace # None /\ replies[1].trace[1].markov_state = "BAD"
    /\ replies[2].cmd = "SET_FAULT_PROFILE" /\ replies[2].ok
    /\ replies[2].line[2] # "intermittent"
    /\ replies[3].trace # None
    /\ replies[3].sn = replies[1].sn /\ replies[3].cmd = replies[1].cmd
    /\ faultCtx[<<replies[3].sn, replies[3].cmd>>].markov_state = "BAD"

-----------------------------------------------------------------------------
(* Properties of the client.                                               *)

\* the call got no complete line: the connect or a read timed out, or the
\* peer closed first
NoLineInTime(ep) ==
    \/ ep.connect = "timeout"
    \/ ep.connect = "accepted" /\ ~ep.newline /\ ep.then \in {"close", "silent"}

\* the call got a complete line that is no JSON text
LineNotJson(ep) ==
    /\ ep.connect = "accepted" /\ ep.newline
    /\ ep.content.kind \in {"text", "empty", "invalid_utf8"}

\* the call got a JSON object
LineIsObject(ep) == ep.connect = "accepted" /\ ep.newline /\ ep.content.kind = "object"

FailedWith(r, code) == r = ClientResult(FALSE, code, None, None)

\* C22: every call returns a result: E_TIMEOUT with empty data when the
\* connect or the read timed out or the peer closed before a full line,
\* E_BAD_RESP with empty data when the line is not valid JSON, E_CLIENT with
\* empty data on every other failure.
C22_CallClassifiesFailures ==
    \A i \in DOMAIN calls :
        LET ep == calls[i].endpoint
            r == calls[i].result
        IN /\ r.ok \in BOOLEAN
           /\ NoLineInTime(ep) => FailedWith(r, E_TIMEOUT)
           /\ LineNotJson(ep) => FailedWith(r, "E_BAD_RESP")
           /\ (~NoLineInTime(ep) /\ ~LineNotJson(ep) /\ ~LineIsObject(ep)) =>
                 FailedWith(r, "E_CLIENT")

-----------------------------------------------------------------------------
(* Properties of the limit check.                                          *)

\* the plan step an event was logged for
StepOf(e) == plan[CHOOSE k \in DOMAIN plan : plan[k].id = e.test_step]

\* the events of attempts that had a field value to check against a range
RangeChecked == {i \in DOMAIN log : /\ StepOf(log[i]).limits.present
                                     /\ StepOf(log[i]).limits.equals = None
                                     /\ log[i].value # None}

WithinRange(limits, v) ==
    /\ limits.min = None \/ v >= limits.min[1]
    /\ limits.max = None \/ v <= limits.max[1]

\* C23: an attempt whose ok response carries the field value v for a step
\* with range limits passes iff (min is null or v >= min) and (max is null or
\* v <= max); if it does not, its event has passed = false and error_code
\* LIMIT_FAIL, and the SN fails when that was the step's last attempt.
C23_RangeLimits ==
    /\ \A i \in RangeChecked :
          /\ log[i].passed = WithinRange(StepOf(log[i]).limits, log[i].value[1])
          /\ ~log[i].passed => log[i].error_code = "LIMIT_FAIL"
    /\ pc = "sn_ret" =>
          \A i \in RangeChecked :
              (/\ log[i].sn = sns[snIdx]
               /\ log[i] = LastEventOf(log[i].sn, log[i].test_step)
               /\ ~log[i].passed) => ~sn_passed

\* a value above the step's max on the last attempt allowed: LIMIT_FAIL, and
\* run_sn is about to return a failed SN
C23_Witness ==
    /\ pc = "sn_ret"
    /\ ~sn_passed
    /\ \E i \in RangeChecked :
          /\ StepOf(log[i]).limits.max # None
          /\ log[i].value[1] > StepOf(log[i]).limits.max[1]
          /\ log[i].error_code = "LIMIT_FAIL"
          /\ log[i].attempt = log[i].retries_allowed + 1
          /\ log[i].attempt > 1

-----------------------------------------------------------------------------
(* Properties of the traceability gate.                                    *)

\* the req_ids the steps of the raw plan refer to
Referenced(raw_plan) == UNION {Range(raw_plan[k].req_ids) : k \in DOMAIN raw_plan}

\* the plan breaks a traceability rule of the registry
Uncovered(registry, raw_plan) == \E r \in DOMAIN registry : r \notin Referenced(raw_plan)
Unknown(registry, raw_plan) == \E r \in Referenced(raw_plan) : r \notin DOMAIN registry
ViolatesTraceability ==
    /\ gate.reqs # None
    /\ Uncovered(gate.reqs[1], gate.raw_plan) \/ Unknown(gate.reqs[1], gate.raw_plan)

\* C24: when the plan breaks a traceability rule the constructor aborts: no
\* request is ever sent to the DUT and nothing is logged for that batch; the
\* coverage matrix is written only when the check has succeeded.
C24_GateBeforeAnyRequest ==
    /\ ViolatesTraceability =>
          /\ pc \in {"construct", "aborted"}
          /\ sent = <<>> /\ log = <<>>
          /\ pc = "aborted" => exit_code = Some(1)
    /\ gate.matrix # None => (gate.reqs # None /\ ~ViolatesTraceability)

\* the constructor has aborted on a plan that has steps to run
C24_Witness ==
    /\ pc = "aborted"
    /\ plan # <<>>
    /\ ViolatesTraceability
    /\ gate.matrix = None

\* C25: validate_coverage succeeds iff the set of req_ids referenced by the
\* steps equals the registry's key set, and raises otherwise, for every
\* registry and every list of (step_id, req_ids) pairs.
C25_CoverageIffSameSets ==
    (pc # "construct" /\ gate.reqs # None) =>
        (pc # "aborted") = (Referenced(gate.raw_plan) = DOMAIN gate.reqs[1])

\* validate_coverage has passed a plan whose steps share the requirements,
\* and has raised on one that refers to a requirement the registry lacks
C25_Witness ==
    /\ gate.reqs # None
    /\ \/ /\ pc = "for_sn" /\ Len(gate.raw_plan) = 2
          /\ DOMAIN gate.reqs[1] = ReqIds
          /\ Range(gate.raw_plan[1].req_ids) # Range(gate.raw_plan[2].req_ids)
       \/ /\ pc = "aborted"
          /\ ~Uncovered(gate.reqs[1], gate.raw_plan)

-----------------------------------------------------------------------------
(* Properties of the event log's two sinks.                                *)

HeaderRows(rows) == {i \in DOMAIN rows : rows[i].kind = "header"}

\* events.csv is the header followed by the rows of the events of events.jsonl
Mirrored ==
    csv # None =>
        /\ HeaderRows(csv[1]) = {1}
        /\ Len(csv[1]) = Len(log) + 1
        /\ \A i \in DOMAIN log : csv[1][i + 1] = to_csv_row(log[i])

\* a step leaves both sinks alone, or creates events.csv with its header, or
\* appends one event to events.jsonl and one row to events.csv
AppendOnly ==
    \/ UNCHANGED <<log, csv>>
    \/ csv = None /\ csv' = Some(<<CSV_COLUMNS>>) /\ log' = log
    \/ /\ csv # None /\ csv' # None
       /\ Len(log') = Len(log) + 1 /\ SubSeq(log', 1, Len(log)) = log
       /\ Len(csv'[1]) = Len(csv[1]) + 1 /\ SubSeq(csv'[1], 1, Len(csv[1])) = csv[1]

\* C26: events.csv gets its header once, when a logger is opened on a
\* directory that has no events.csv; every log call appends one line to
\* events.jsonl and one row to events.csv and alters nothing written before;
\* so both sinks always hold the same events in the same order.
C26_SinksMirrorEachOther == [](Mirrored) /\ [][AppendOnly]_vars

\* events.csv holds its header and the rows of MaxLogged events, not all alike
C26_Witness ==
    /\ csv # None
    /\ Len(log) = MaxLogged
    /\ \E i, j \in DOMAIN log : i < j /\ log[i] # log[j]

-----------------------------------------------------------------------------
(* Properties of the yields computed from the log of a finished batch.     *)

\* the units of the log: the SNs that have events
Units == {log[i].sn : i \in DOMAIN log} \ {""}

\* the final event of (sn, step id): the one with the maximum attempt (the
\* latest logged of them, should the SN have been run more than once)
FinalEvent(sn, id) ==
    LET g == GroupOf(log, sn, id)
        top == {i \in g : \A j \in g : log[j].attempt <= log[i].attempt}
    IN log[CHOOSE i \in top : \A j \in top : j <= i]

PassesFinally(sn) ==
    \A k \in DOMAIN plan :
        /\ GroupOf(log, sn, plan[k].id) # {}
        /\ FinalEvent(sn, plan[k].id).passed

PassesFirstTime(sn) ==
    \A k \in DOMAIN plan :
        /\ GroupOf(log, sn, plan[k].id) # {}
        /\ FinalEvent(sn, plan[k].id).attempt = 1
        /\ FinalEvent(sn, plan[k].id).passed
        /\ \A i \in GroupOf(log, sn, plan[k].id) : log[i].passed

SameFraction(r, n, d) == IF d = 0 THEN r.num = 0 ELSE r.num * d = n * r.den

\* C27: compute_yields counts an SN as final-pass iff every step of the plan
\* has an event for that SN and the final event (maximum attempt) of each
\* (sn, step) passed; fty is that count over the number of units.
C27_FinalPassCount ==
    pc = "exit" =>
        LET y == compute_yields(log)
            n == Cardinality({sn \in Units : PassesFinally(sn)})
        IN /\ y.overall_pass_final = n
           /\ SameFraction(y.fty, n, Cardinality(Units))

\* C28: compute_yields counts an SN as first-pass iff, for every step, the
\* final event of (sn, step) has attempt = 1 and passed and no event of that
\* (sn, step) failed; fpy is that count over the number of units.
C28_FirstPassCount ==
    pc = "exit" =>
        LET y == compute_yields(log)
            n == Cardinality({sn \in Units : PassesFirstTime(sn)})
        IN /\ y.overall_pass_first_pass = n
           /\ SameFraction(y.fpy, n, Cardinality(Units))

-----------------------------------------------------------------------------
(* Properties of the stratification by temperature bin.                    *)

\* the units that have no temp_c value on any passing event
NoTempData == {sn \in Units : TempEvents(log, sn) = {}}

RECURSIVE UnitsIn(_)
UnitsIn(rows) ==
    IF rows = {} THEN 0
    ELSE LET r == CHOOSE x \in rows : TRUE IN r.units + UnitsIn(rows \ {r})

\* C29: in stratify(key = "temp_bin") an SN with no temp_c value on any
\* passing event is excluded: the units of the output groups count only the
\* SNs that have temperature data.
C29_NoTempDataExcluded ==
    UnitsIn(stratify_temp_bin(log)) = Cardinality(Units \ NoTempData)

\* C29 as amended: such an SN is not excluded; it is counted in the units of
\* the group "UNKNOWN", and the temperature bins count the other SNs.
C29_NoTempDataIsUnknown ==
    LET rows == stratify_temp_bin(log)
        unknown == {r \in rows : r.group = "UNKNOWN"}
    IN /\ UnitsIn(unknown) = Cardinality(NoTempData)
       /\ UnitsIn(rows \ unknown) = Cardinality(Units \ NoTempData)

\* a finished batch with one SN in a temperature bin and one without
\* temperature data
C29_Witness ==
    /\ pc = "exit"
    /\ Cardinality(NoTempData) = 1
    /\ Cardinality(Units \ NoTempData) = 1

-----------------------------------------------------------------------------
(* Properties of the order of the log.                                     *)

\* the position in the SN list of the run that logged event i: one more than
\* the runs ended before it (a run ends on the terminal event of the last step)
RunOf(i) ==
    1 + Cardinality({j \in 1..(i - 1) :
                        Terminal(log[j]) /\ log[j].test_step = plan[Len(plan)].id})

\* the position of a step id in the plan
StepIndex(id) == CHOOSE k \in DOMAIN plan : plan[k].id = id

\* event i is the one that has to follow event i - 1
Follows(i) ==
    LET e == log[i]
        p == log[i - 1]
    IN IF ~Terminal(p)
       THEN e.sn = p.sn /\ e.test_step = p.test_step /\ e.attempt = p.attempt + 1
       ELSE /\ e.attempt = 1
            /\ IF StepIndex(p.test_step) < Len(plan)
               THEN /\ RunOf(i) = RunOf(i - 1)
                    /\ StepIndex(e.test_step) = StepIndex(p.test_step) + 1
               ELSE /\ RunOf(i) = RunOf(i - 1) + 1
                    /\ StepIndex(e.test_step) = 1

\* C30: run_batch is strictly sequential: the log follows the SN list in the
\* caller's order, within an SN the plan's step order, within a step the
\* attempts in increasing order, and the event after a terminal event is the
\* first attempt of the next step (or of the first step of the next SN);
\* nothing of a later step or SN comes before that terminal event.
C30_StrictlySequential ==
    \A i \in DOMAIN log :
        /\ \E k \in DOMAIN plan : plan[k].id = log[i].test_step
        /\ RunOf(i) <= Len(sns)
        /\ log[i].sn = sns[RunOf(i)]
        /\ IF i = 1
           THEN StepIndex(log[i].test_step) = 1 /\ log[i].attempt = 1
           ELSE Follows(i)

\* a finished batch of two SNs given in descending order, on a plan of two
\* steps, with a retried step
C30_Witness ==
    /\ pc = "exit"
    /\ sns = <<"SN2", "SN1">>
    /\ Len(plan) = 2
    /\ \E i \in DOMAIN log : log[i].attempt = 2
    /\ \E i \in DOMAIN log : log[i].sn = "SN1" /\ log[i].test_step = plan[2].id

-----------------------------------------------------------------------------
(* Properties of the Pareto counts.                                        *)

FailedInLog == {i \in DOMAIN log : ~log[i].passed}

RECURSIVE RowsTotal(_)
RowsTotal(rows) ==
    IF rows = <<>> THEN 0 ELSE Head(rows).failed_attempts + RowsTotal(Tail(rows))

\* rows in descending count, equal counts in ascending key
ParetoOrdered(rows) ==
    \A i \in 1..(Len(rows) - 1) :
        \/ rows[i].failed_attempts > rows[i + 1].failed_attempts
        \/ /\ rows[i].failed_attempts = rows[i + 1].failed_attempts
           /\ KeyRank(rows[i].name) < KeyRank(rows[i + 1].name)

\* C31: the Pareto counts are taken over failed events only, one per failed
\* event, independently by test_step, by error_code and by batch_id: each of
\* the three totals is the number of failed events, a key's count is the
\* number of failed events with that key, and the rows written are in
\* descending count, ties in ascending key.
C31_ParetoOverFailedEvents ==
    LET counts == pareto_failures(log)
        rows == write_pareto_csv(counts)
    IN /\ \A key \in DOMAIN rows :
             /\ RowsTotal(rows[key]) = Cardinality(FailedInLog)
             /\ ParetoOrdered(rows[key])
             /\ {rows[key][i].name : i \in DOMAIN rows[key]} = DOMAIN counts[key]
       /\ \A k \in DOMAIN counts.by_step :
             counts.by_step[k] = Cardinality({i \in FailedInLog : log[i].test_step = k})
       /\ \A k \in DOMAIN counts.by_error :
             counts.by_error[k] = Cardinality({i \in FailedInLog : PyStr(log[i].error_code) = k})

\* a log with a step instance that failed twice, a failure of another step
\* and a passed event
C31_Witness ==
    /\ \E i, j \in FailedInLog :
          i < j /\ log[i].sn = log[j].sn /\ log[i].test_step = log[j].test_step
    /\ \E i, j \in FailedInLog : log[i].test_step # log[j].test_step
    /\ \E i \in DOMAIN log : log[i].passed

-----------------------------------------------------------------------------
(* Properties of the flaky rate.                                           *)

\* the (sn, step) instances observed in the log
Observed == {<<log[i].sn, log[i].test_step>> : i \in DOMAIN log}

\* an instance with a failed event and a passing final event
Flaky(inst) ==
    /\ \E i \in GroupOf(log, inst[1], inst[2]) : ~log[i].passed
    /\ FinalEvent(inst[1], inst[2]).passed

\* C32: flaky_rate is the number of (sn, step) instances with at least one
\* failed event and a passing final event, over the number of (sn, step)
\* instances observed in the log, and 0 when there are none.
C32_FlakyRate ==
    SameFraction(compute_yields(log).flaky_rate,
                 Cardinality({inst \in Observed : Flaky(inst)}),
                 Cardinality(Observed))

-----------------------------------------------------------------------------
(* Properties of the equals limit.                                         *)

\* the events of the steps that have limits.equals
EqualsChecked == {i \in DOMAIN log : StepOf(log[i]).limits.equals # None}

\* the response of the event's attempt was ok: only then does run_step take a
\* measurement name from the limits
TransportOk(e) == e.measurement # Null

\* C33: for a step with limits.equals = X an attempt whose response is ok
\* passes iff data[limits.field] == X and is logged with passed = false and
\* error_code LIMIT_FAIL otherwise; when the response is not ok the limits are
\* not evaluated and the error code logged is never LIMIT_FAIL.
C33_EqualsLimit ==
    \A i \in EqualsChecked :
        IF TransportOk(log[i])
        THEN /\ log[i].passed = (log[i].value = StepOf(log[i]).limits.equals)
             /\ ~log[i].passed => log[i].error_code = "LIMIT_FAIL"
        ELSE /\ ~log[i].passed
             /\ log[i].error_code # "LIMIT_FAIL"
             /\ log[i].value = None

\* a step with an equals limit: one attempt met a response that was not ok,
\* the next an ok response with another value
C33_Witness ==
    \E i, j \in EqualsChecked :
        /\ i < j
        /\ ~TransportOk(log[i]) /\ log[i].error_code = E_TIMEOUT
        /\ TransportOk(log[j]) /\ log[j].value # None
        /\ log[j].value # StepOf(log[j]).limits.equals
        /\ log[j].error_code = "LIMIT_FAIL"

-----------------------------------------------------------------------------
(* Properties of the stage gating.                                         *)

\* the effective stage: the stage argument when one is given, else the
\* station's stage
EffectiveStage ==
    IF gate.stage = None \/ gate.stage \in {Some(""), Some(" ")}
    THEN gate.station_stage
    ELSE gate.stage[1]

\* the ids of the plan file's steps whose stages hold the effective stage, in
\* the file's order
GatedIds ==
    LET on == SelectSeq(gate.raw_plan, LAMBDA st : EffectiveStage \in Range(st.stages))
    IN [k \in DOMAIN on |-> on[k].id]

\* C34: load_plan returns exactly the steps whose stages list holds the
\* effective stage (the stage argument when given, otherwise station.stage),
\* in the plan's declared order, and the runner executes only those steps:
\* every request and event of a step is of one of them, and a finished batch
\* has run each of them.
C34_StageGating ==
    pc \notin {"construct", "aborted"} =>
        /\ [k \in DOMAIN plan |-> plan[k].id] = GatedIds
        /\ \A i \in DOMAIN log : log[i].test_step \in Range(GatedIds)
        /\ Len(StepRequests) = Len(log)
        /\ pc = "exit" => {log[i].test_step : i \in DOMAIN log} = Range(GatedIds)

\* a finished batch at a stage given as argument that is not the station's:
\* of the two steps of the file the second alone was run
C34_Witness ==
    /\ pc = "exit"
    /\ gate.stage = Some("DVT") /\ gate.station_stage = "EVT"
    /\ Len(gate.raw_plan) = 2
    /\ gate.raw_plan[1].stages = <<"EVT">> /\ gate.raw_plan[2].stages = <<"DVT", "EVT">>
    /\ {log[i].test_step : i \in DOMAIN log} = {gate.raw_plan[2].id}

-----------------------------------------------------------------------------
(* Properties of the dispatch after the injector's decision.               *)

\* the requests the injector decided on
Decided == {i \in DOMAIN replies : replies[i].trace # None}

\* the READ_TEMP / SELF_TEST requests for sn that reached the device model
ReachedDevice(sn) ==
    {i \in Decided : /\ replies[i].sn = sn
                     /\ replies[i].cmd \in {"READ_TEMP", "SELF_TEST"}
                     /\ replies[i].action \in {"PASS", "DELAY"}}

\* C35: a RESPOND decision is answered with the error and a DROP decision
\* with nothing, neither reaching the device model; DELAY and PASS are
\* answered ok by the device model; so a device's cycles counter counts the
\* READ_TEMP and SELF_TEST requests that reached the device model, one each.
C35_CyclesCountServedReads ==
    /\ \A i \in Decided :
          /\ replies[i].action = "RESPOND" => (replies[i].sent /\ ~replies[i].ok)
          /\ replies[i].action = "DROP" => ~replies[i].sent
          /\ replies[i].action \in {"PASS", "DELAY"} => (replies[i].sent /\ replies[i].ok)
    /\ InDispatch = {} =>
          \A sn \in DOMAIN devices :
              devices[sn].cycles = Cardinality(ReachedDevice(sn))

-----------------------------------------------------------------------------
(* Properties of the client's connections.                                 *)

Returned_calls == {k \in DOMAIN calls : calls[k].result # None}
\* the reply the handler of call k's connection sent for call k's request
OwnReply(k) == conns[calls[k].socket].out[calls[k].request]
\* a response the server sent on the connection of a call that had timed out
LateResponse(k) ==
    /\ k \in Returned_calls
    /\ calls[k].read = None
    /\ conns[calls[k].socket].out # <<>>

\* C36: every call has a connection of its own, with its request as the only
\* line on it, and a call that returns returns either E_TIMEOUT, having read
\* nothing, or the content of the response the server sent for that call's own
\* request; a response sent after a call timed out is read by no other call.
C36_FreshConnectionPerCall ==
    /\ \A j, k \in DOMAIN calls : j # k => calls[j].socket # calls[k].socket
    /\ \A k \in DOMAIN calls : conns[calls[k].socket].lines = <<calls[k].line>>
    /\ \A k \in Returned_calls :
          IF calls[k].read = None
          THEN calls[k].result = Some(ClientResult(FALSE, E_TIMEOUT, None, None))
          ELSE /\ calls[k].read = Some(calls[k].request)
               /\ OwnReply(k).line = calls[k].line
               /\ calls[k].result = Some(call_line(ResponseLine(OwnReply(k))))

\* the first call timed out, its response was sent afterwards, and the next
\* call has returned the response to its own request
C36_Witness ==
    /\ Len(calls) = 2
    /\ LateResponse(1)
    /\ calls[2].read # None
    /\ calls[2].result[1].ok

-----------------------------------------------------------------------------
(* Properties of a measurement missing from the response.                  *)

\* the events of attempts whose response was ok and held no value for the
\* field of the step's limits
ValueMissing == {i \in DOMAIN log : TransportOk(log[i]) /\ log[i].value = None}

\* C37: an attempt whose response is ok and holds no value for limits.field
\* is logged with passed = false and error_code LIMIT_FAIL, whether the limits
\* are a range or an equals.
C37_MissingValueFails ==
    \A i \in ValueMissing : ~log[i].passed /\ log[i].error_code = "LIMIT_FAIL"

\* the same for the steps with limits.equals alone
MissingValueFailsEquals ==
    \A i \in ValueMissing \cap EqualsChecked :
        ~log[i].passed /\ log[i].error_code = "LIMIT_FAIL"

-----------------------------------------------------------------------------
(* Properties of the injector's settings.                                  *)

\* the profile's default section overridden key by key by the per_command
\* section of cmd
Overridden(prof, cmd, section) ==
    LET dflt == Get(Get(prof, "default", <<>>), section, <<>>)
        own == Get(Get(Get(prof, "per_command", <<>>), cmd, <<>>), section, <<>>)
    IN [k \in DOMAIN dflt \cup DOMAIN own |-> IF k \in DOMAIN own THEN own[k] ELSE dflt[k]]

\* the request's command has a per_command fail.p of 0
FailSwitchedOff(r) == Get(Overridden(r.before, r.cmd, "fail"), "p", 0) = 0
                      /\ "p" \in DOMAIN Get(Get(Get(r.before, "per_command", <<>>),
                                                r.cmd, <<>>), "fail", <<>>)

SettingsAreOverridden(sections) ==
    \A i \in DOMAIN replies : \A section \in sections :
        replies[i].settings[section] = Overridden(replies[i].before, replies[i].cmd, section)
ProfileNotMutated == \A i \in DOMAIN replies : replies[i].after = replies[i].before
\* should_fail adds the Markov chain's fail_p_bad_state to p after the merge;
\* the requests the chain added nothing to
FailSuppressed ==
    \A i \in DOMAIN replies :
        (FailSwitchedOff(replies[i]) /\ replies[i].markov_add = 0) => ~replies[i].failed

\* C38: for every command and each of the five sections the settings read for
\* a request are the default section overridden key by key by the command's
\* per_command section; reading them leaves the profile as it was; a request
\* of a command with per_command fail.p = 0 is not failed by should_fail's own
\* probability, whatever the default fail.p.
C38_SettingsPerCommand ==
    /\ SettingsAreOverridden(SectionNames)
    /\ ProfileNotMutated
    /\ FailSuppressed

\* the same without the burn_in section
SettingsOutsideBurnIn ==
    /\ SettingsAreOverridden(SectionNames \ {"burn_in"})
    /\ ProfileNotMutated
    /\ FailSuppressed

-----------------------------------------------------------------------------
(* Properties of the per-step timeout.                                     *)

\* run_sn is inside a run_step call
InRunStep == pc \in {"attempt", "step_ret"}

\* C39: every call run_step makes uses the timeout_s of its step; outside
\* run_step the client's timeout_s is the one it was constructed with, which
\* is also the value every run_step found on entry, and every _ping_fw call
\* uses it.
C39_StepTimeoutScoped ==
    /\ \A i \in DOMAIN StepRequests :
          StepRequests[i].timeout_s = StepOf(log[i]).timeout_s
    /\ InRunStep => /\ timeouts.client = plan[stepIdx].timeout_s
                    /\ timeouts.original_timeout = Some(TIMEOUT_S_DEFAULT)
    /\ ~InRunStep => timeouts = DutClient_init
    /\ \A i \in DOMAIN PingRequests : PingRequests[i].timeout_s = TIMEOUT_S_DEFAULT

\* a step with the longer timeout and a step with the shorter one have made
\* their calls, and the next SN's firmware PING has been sent after them
C39_Witness ==
    \E i, j, k \in DOMAIN sent :
        /\ i < j /\ j < k
        /\ sent[i].site = "run_step" /\ sent[i].timeout_s = 5
        /\ sent[j].site = "run_step" /\ sent[j].timeout_s = 1
        /\ sent[k].site = "_ping_fw" /\ sent[k].timeout_s = TIMEOUT_S_DEFAULT

-----------------------------------------------------------------------------
(* Properties of the yield counts.                                         *)

\* a / b <= c / d for fractions with positive denominators
AtMost(r, q) == r.num * q.den <= q.num * r.den

\* C40: compute_yields counts no more first-pass units than final-pass units
\* and no more final-pass units than units, so 0 <= fpy <= fty <= 1; every SN
\* it counts as first-pass it counts as final-pass.
C40_FirstPassWithinFinalPass ==
    LET y == compute_yields(log)
    IN /\ y.overall_pass_first_pass <= y.overall_pass_final
       /\ y.overall_pass_final <= y.total_units
       /\ y.fpy.num >= 0 /\ AtMost(y.fpy, y.fty) /\ y.fty.num <= y.fty.den
       /\ \A sn \in YieldSns(log) : unit_first_pass_ok(log, sn) => unit_final_ok(log, sn)

\* a log with fewer first-pass units than final-pass units (a unit passing on
\* an attempt after the first) and fewer final-pass units than units
C40_Witness ==
    LET y == compute_yields(log)
    IN /\ y.overall_pass_first_pass < y.overall_pass_final
       /\ y.overall_pass_final < y.total_units

=============================================================================
